---------------------------- MODULE Spec2Model ----------------------------
(***************************************************************************)
(* Certificate ingestion and verification back end (routes/verify.js,      *)
(* routes/certificate.js, models/Certificate.js) as a state machine.       *)
(*                                                                         *)
(* JavaScript values are records [t, s, n]: t is the type tag, s the text  *)
(* of a string as a sequence of one-character strings, n the number (or,   *)
(* for a Date, the calendar day as year*10000 + month*100 + day of the     *)
(* instant in UTC).                                                        *)
(***************************************************************************)
EXTENDS Integers, Sequences, FiniteSets, TLC

(* ------------------------------ bounds -------------------------------- *)

\* Longest JSON batch the small specifications submit.
MaxBatch == 3
\* Number of request slots served concurrently in Spec.
NReq == 2
\* Number of requests a concurrent run takes in.
MaxServed == 3
\* Most documents the collection holds in a run (caps growth in the guards).
MaxStore == 3

(* --------------------------- JavaScript values ------------------------ *)

Undef == [t |-> "undefined", s |-> << >>, n |-> 0]
Null == [t |-> "null", s |-> << >>, n |-> 0]
NaN == [t |-> "NaN", s |-> << >>, n |-> 0]
InvalidDate == [t |-> "invalidDate", s |-> << >>, n |-> 0]
Str(x) == [t |-> "string", s |-> x, n |-> 0]
Num(k) == [t |-> "number", s |-> << >>, n |-> k]
DateOf(ymd) == [t |-> "date", s |-> << >>, n |-> ymd]

IsString(v) == v.t = "string"

\* JavaScript truthiness: undefined, null, NaN, 0 and "" are falsy.
Truthy(v) ==
  CASE v.t = "undefined" -> FALSE
    [] v.t = "null" -> FALSE
    [] v.t = "NaN" -> FALSE
    [] v.t = "number" -> v.n # 0
    [] v.t = "string" -> v.s # << >>
    [] OTHER -> TRUE

\* a || b
JsOr(a, b) == IF Truthy(a) THEN a ELSE b

(* ------------------------------- strings ------------------------------ *)

Digits == {"0", "1", "2", "3", "4", "5", "6", "7", "8", "9"}

DigitVal(c) ==
  CASE c = "0" -> 0 [] c = "1" -> 1 [] c = "2" -> 2 [] c = "3" -> 3
    [] c = "4" -> 4 [] c = "5" -> 5 [] c = "6" -> 6 [] c = "7" -> 7
    [] c = "8" -> 8 [] c = "9" -> 9

DigitChar(k) ==
  CASE k = 0 -> "0" [] k = 1 -> "1" [] k = 2 -> "2" [] k = 3 -> "3"
    [] k = 4 -> "4" [] k = 5 -> "5" [] k = 6 -> "6" [] k = 7 -> "7"
    [] k = 8 -> "8" [] k = 9 -> "9"

\* String.prototype.toUpperCase on the letters of the model's alphabet.
UpperChar(c) ==
  CASE c = "x" -> "X" [] c = "y" -> "Y" [] c = "a" -> "A" [] c = "b" -> "B"
    [] OTHER -> c

\* String.prototype.toLowerCase on the letters of the model's alphabet.
LowerChar(c) ==
  CASE c = "X" -> "x" [] c = "Y" -> "y" [] c = "A" -> "a" [] c = "B" -> "b"
    [] OTHER -> c

toUpperCase(x) == [i \in 1..Len(x) |-> UpperChar(x[i])]

toLowerCase(x) == [i \in 1..Len(x) |-> LowerChar(x[i])]

RECURSIVE TrimLeft(_)
TrimLeft(x) ==
  IF x # << >> /\ Head(x) = " " THEN TrimLeft(Tail(x)) ELSE x

RECURSIVE TrimRight(_)
TrimRight(x) ==
  IF x # << >> /\ x[Len(x)] = " " THEN TrimRight(SubSeq(x, 1, Len(x) - 1)) ELSE x

\* String.prototype.trim
trim(x) == TrimRight(TrimLeft(x))

\* The offsets of the "-" characters of x, in increasing order.
RECURSIVE DashesFrom(_, _)
DashesFrom(x, i) ==
  IF i > Len(x) THEN << >>
  ELSE IF x[i] = "-" THEN <<i>> \o DashesFrom(x, i + 1)
  ELSE DashesFrom(x, i + 1)

\* String.prototype.split('-')
split(x) ==
  LET cuts == <<0>> \o DashesFrom(x, 1) \o <<Len(x) + 1>>
  IN [k \in 1..(Len(cuts) - 1) |-> SubSeq(x, cuts[k] + 1, cuts[k + 1] - 1)]

AllDigits(x) == \A i \in 1..Len(x) : x[i] \in Digits

RECURSIVE ToNat(_)
ToNat(x) ==
  IF x = << >> THEN 0 ELSE 10 * ToNat(SubSeq(x, 1, Len(x) - 1)) + DigitVal(x[Len(x)])

\* String(k).padStart(w, '0') for a natural k.
RECURSIVE PadNat(_, _)
PadNat(k, w) ==
  IF w <= 1 /\ k < 10 THEN <<DigitChar(k)>>
  ELSE PadNat(k \div 10, w - 1) \o <<DigitChar(k % 10)>>


(* -------------------------------- dates ------------------------------- *)

\* The server's time zone, by the side of UTC it lies on: local getters of a
\* Date at a UTC midnight give the same calendar day at or east of UTC and the
\* day before west of it.
TimeZones == {"utcOrEast", "west"}

IsLeap(y) == (y % 4 = 0 /\ y % 100 # 0) \/ y % 400 = 0

DaysInMonth(y, m) ==
  IF m = 2 THEN (IF IsLeap(y) THEN 29 ELSE 28)
  ELSE IF m \in {4, 6, 9, 11} THEN 30 ELSE 31

Ymd(y, m, d) == y * 10000 + m * 100 + d
YearOf(ymd) == ymd \div 10000
MonthOf(ymd) == (ymd \div 100) % 100
DayOf(ymd) == ymd % 100

PrevDay(ymd) ==
  LET y == YearOf(ymd)
      m == MonthOf(ymd)
      d == DayOf(ymd)
  IN IF d > 1 THEN Ymd(y, m, d - 1)
     ELSE IF m > 1 THEN Ymd(y, m - 1, DaysInMonth(y, m - 1))
     ELSE Ymd(y - 1, 12, 31)

\* /^\d{4}-\d{2}-\d{2}$/ : the ISO date-only form.
IsIsoForm(x) ==
  /\ Len(x) = 10
  /\ x[5] = "-" /\ x[8] = "-"
  /\ \A i \in {1, 2, 3, 4, 6, 7, 9, 10} : x[i] \in Digits

\* new Date(text). An ISO date-only text with a real calendar day is that day's
\* UTC midnight; an ISO-form text with month or day out of 1..12 / 1..31, and a
\* text of letters, is an Invalid Date. (Texts of other forms, and the days 29..31
\* of months that lack them, are not among the model's inputs.)
NewDateFromString(x) ==
  IF IsIsoForm(x)
  THEN LET y == ToNat(SubSeq(x, 1, 4))
           m == ToNat(SubSeq(x, 6, 7))
           d == ToNat(SubSeq(x, 9, 10))
       IN IF m \in 1..12 /\ d \in 1..DaysInMonth(y, m) THEN DateOf(Ymd(y, m, d))
          ELSE InvalidDate
  ELSE InvalidDate

\* new Date(number): the number is milliseconds after the Unix epoch. The model's
\* numbers are below one hour of milliseconds, so the instant lies on 1970-01-01
\* UTC, before any whole-hour western offset has passed.
NewDateFromNumber(v) ==
  IF v.t = "number" /\ v.n >= 0 /\ v.n < 3600000 THEN DateOf(Ymd(1970, 1, 1))
  ELSE InvalidDate

\* isNaN(date.getTime())
IsInvalidDate(d) == d.t = "invalidDate"

\* The calendar day the local getters getDate / getMonth / getFullYear read.
LocalDay(d, zone) == IF zone = "west" THEN PrevDay(d.n) ELSE d.n

\* `${day}-${month}-${year}` with day and month padded to two digits.
FormatDay(ymd) ==
  PadNat(DayOf(ymd), 2) \o <<"-">> \o PadNat(MonthOf(ymd), 2) \o <<"-">>
    \o PadNat(YearOf(ymd), 1)

\* /^\d{2}-\d{2}-\d{4}$/
IsDdMmYyyy(x) ==
  /\ Len(x) = 10
  /\ x[3] = "-" /\ x[6] = "-"
  /\ \A i \in {1, 2, 4, 5, 7, 8, 9, 10} : x[i] \in Digits

UndefinedText == <<"u", "n", "d", "e", "f", "i", "n", "e", "d">>

\* parseDate: null for a falsy value, new Date(value) for a non-string, and for a
\* text with "-" whose first segment has two characters the date of
\* `${parts[2]}-${parts[1]}-${parts[0]}` (a missing part prints as "undefined").
parseDate(v) ==
  IF ~Truthy(v) THEN Null
  ELSE IF ~IsString(v) THEN NewDateFromNumber(v)
  ELSE IF \E i \in 1..Len(v.s) : v.s[i] = "-"
  THEN LET parts == split(v.s)
           part(k) == IF k <= Len(parts) THEN parts[k] ELSE UndefinedText
       IN IF Len(parts[1]) = 2
          THEN NewDateFromString(part(3) \o <<"-">> \o part(2) \o <<"-">> \o part(1))
          ELSE NewDateFromString(v.s)
  ELSE NewDateFromString(v.s)

\* normalizeDate: a DD-MM-YYYY text is kept (trimmed); any other value that parses
\* is written as the DD-MM-YYYY text of its local calendar day; the rest is
\* returned as it came.
normalizeDate(v, zone) ==
  IF ~Truthy(v) THEN Null
  ELSE IF IsString(v) /\ IsDdMmYyyy(trim(v.s)) THEN Str(trim(v.s))
  ELSE LET parsed == parseDate(v)
       IN IF ~IsInvalidDate(parsed) THEN Str(FormatDay(LocalDay(parsed, zone)))
          ELSE v

(* ----------------------- raw records and extraction ------------------- *)

FieldNames ==
  {"internId", "Intern ID", "name", "Name", "domain", "Domain", "duration",
   "Duration", "startingDate", "Starting Date", "completionDate",
   "Completion Date", "email", "Email", "status", "Name of the Intern",
   "Start Date"}

\* An element of the certificates array: a JSON object (its absent keys read as
\* undefined) or null.
Obj(f) ==
  [kind |-> "object",
   f |-> [k \in FieldNames |-> IF k \in DOMAIN f THEN f[k] ELSE Undef]]
NullItem == [kind |-> "null", f |-> [k \in FieldNames |-> Undef]]

\* Reading a property of null throws a TypeError.
ReadThrows(item) == item.kind = "null"

\* extractCertificateData: canonical name first, then the display name.
extractCertificateData(item) ==
  [internId |-> JsOr(item.f["internId"], item.f["Intern ID"]),
   name |-> JsOr(item.f["name"], item.f["Name"]),
   domain |-> JsOr(item.f["domain"], item.f["Domain"]),
   duration |-> IF item.f["duration"] # Undef THEN item.f["duration"]
                ELSE item.f["Duration"],
   startingDate |-> JsOr(item.f["startingDate"], item.f["Starting Date"]),
   completionDate |-> JsOr(item.f["completionDate"], item.f["Completion Date"]),
   email |-> JsOr(item.f["email"], item.f["Email"])]

(* ------------------------------ validation ---------------------------- *)

\* value.trim() throws a TypeError on a truthy value that is not a string.
TrimThrows(v) == Truthy(v) /\ ~IsString(v)

\* !v || v.trim() === ''
Blank(v) == ~Truthy(v) \/ trim(v.s) = << >>

Keep(cond, msg) == IF cond THEN <<msg>> ELSE << >>

\* validateCertificate: every rule is checked; the result is the list of defects,
\* or a TypeError thrown by .trim() on a non-string internId, name or domain.
validateCertificate(data) ==
  IF TrimThrows(data.internId) \/ TrimThrows(data.name) \/ TrimThrows(data.domain)
  THEN [threw |-> TRUE, errors |-> << >>]
  ELSE [threw |-> FALSE,
        errors |->
          Keep(Blank(data.internId), "Intern ID is required")
          \o Keep(Blank(data.name), "Name is required")
          \o Keep(Blank(data.domain), "Domain is required")
          \o Keep(data.duration.t \in {"undefined", "null"}, "Duration is required")
          \o Keep(~Truthy(data.startingDate), "Starting Date is required")
          \o Keep(~Truthy(data.completionDate), "Completion Date is required")
          \o Keep(Truthy(data.startingDate)
                    /\ IsInvalidDate(parseDate(data.startingDate)),
                  "Invalid Starting Date format")
          \o Keep(Truthy(data.completionDate)
                    /\ IsInvalidDate(parseDate(data.completionDate)),
                  "Invalid Completion Date format")]

(* ------------------------------- inputs ------------------------------- *)

Day1 == Str(<<"0", "1", "-", "0", "1", "-", "2", "0", "2", "4">>)
IsoDay == Str(<<"2", "0", "2", "4", "-", "0", "3", "-", "0", "1">>)

\* A well-formed record: every field present and of its documented type.
Rec(id, name) ==
  Obj([internId |-> Str(id), name |-> Str(name), domain |-> Str(<<"D">>),
       duration |-> Num(2), startingDate |-> Day1, completionDate |-> IsoDay])

Without(item, field) == [item EXCEPT !.f[field] = Undef]
With(item, field, value) == [item EXCEPT !.f[field] = value]

\* The raw records of the model, by name. A request holds the names of its
\* elements; the handlers read the element a name stands for.
Catalogue ==
  [x1a |-> Rec(<<" ", "x", "1">>, <<"a">>),
   x1b |-> Rec(<<"X", "1">>, <<"b">>),
   y1 |-> Rec(<<"Y", "1">>, <<"a", " ", "b">>),
   noDomain |-> Without(Rec(<<"y", "1">>, <<"b">>), "domain"),
   null |-> NullItem,
   numberId |-> With(Rec(<<"Y", "1">>, <<"a", " ", "b">>), "internId", Num(7)),
   badDuration |-> With(Rec(<<"Y", "1">>, <<"a", " ", "b">>), "duration", Str(<<"x">>)),
   badEmail |-> With(Rec(<<"X", "1">>, <<"b">>), "email", Num(5)),
   z1 |-> Rec(<<"Z", "1">>, <<"a">>),
   serialDate |-> With(Rec(<<"S", "1">>, <<"a">>), "startingDate", Num(45292)),
   displayNames |->
     With(With(With(Obj([domain |-> Str(<<"D">>), duration |-> Num(2),
                         completionDate |-> IsoDay]),
                    "Intern ID", Str(<<"Z", "1">>)),
               "Name", Str(<<"a">>)),
          "Starting Date", Day1),
   nameOfTheIntern |->
     With(Without(Rec(<<"Z", "1">>, <<"a">>), "name"), "Name of the Intern",
          Str(<<"a">>)),
   startDate |->
     With(Without(Rec(<<"Z", "1">>, <<"a">>), "startingDate"), "Start Date", Day1),
   bothNames |-> With(Rec(<<"Z", "1">>, <<"a">>), "Name", Str(<<"b">>)),
   nothing |-> Obj(<< >>),
   badDates |->
     With(With(Rec(<<"Z", "1">>, <<"a">>), "startingDate", Str(<<"x", "x">>)),
          "completionDate",
          Str(<<"2", "0", "2", "4", "-", "1", "3", "-", "0", "1">>)),
   blankId |->
     With(Without(With(Rec(<<"Z", "1">>, <<"a">>), "internId", Str(<<" ">>)),
                  "domain"),
          "completionDate", Str(<<"x", "x">>)),
   numberIdNoDomain |->
     Without(With(Rec(<<"Z", "1">>, <<"a">>), "internId", Num(7)), "domain")]

\* The elements the JSON batches are made of.
Items == {"x1a", "x1b", "y1", "noDomain", "null", "numberId", "badDuration"}

(* --------------------- the Certificate model (store) ------------------ *)

VARIABLES
  store,   \* the certificates collection: its documents in insertion order
  req,     \* req[r]: the request slot r is serving and how far its handler is
  tz,      \* the server's time zone
  served,  \* how many requests the concurrent runs have taken in
  programs, \* the programs collection: its documents in insertion order
  hist     \* observations of the sequential runs, read by the properties only

vars == <<store, req, tz, served, hist, programs>>

Reqs == 1..NReq

\* Number(value)
ToNumber(v) ==
  CASE v.t = "number" -> v
    [] v.t = "null" -> Num(0)
    [] v.t = "string" ->
         IF trim(v.s) = << >> THEN Num(0)
         ELSE IF AllDigits(trim(v.s)) THEN Num(ToNat(trim(v.s)))
         ELSE NaN
    [] OTHER -> NaN

\* A key that is trimmed and keeps its case.
TrimmedKey(x) == trim(x)

\* The internId a request's text is matched and stored under.
NormalKey(x) == toUpperCase(trim(x))

\* Certificate.findOne({ internId }): the stored document with that key, if any.
Matching(st, key) == {k \in 1..Len(st) : st[k].internId = Str(key)}
Exists(st, key) == Matching(st, key) # {}
findOne(st, key) == st[CHOOSE k \in Matching(st, key) : \A j \in Matching(st, key) : k <= j]

\* The _id of a new document: one that no stored document and no document held
\* by a handler carries.
UsedOids(st, rq) == {st[k].oid : k \in 1..Len(st)} \cup {rq[r].oid : r \in Reqs}
FreshOid(st, rq) ==
  CHOOSE k \in 1..(MaxStore + NReq + 1) :
    /\ k \notin UsedOids(st, rq)
    /\ \A j \in 1..(k - 1) : j \in UsedOids(st, rq)

\* The collection after the insert of doc.
Inserted(st, rq, doc) == Append(st, [doc EXCEPT !.oid = FreshOid(st, rq)])

\* A collection without the unique index: it takes every document.
NoUniqueIndex(st, doc) == TRUE

\* The unique index on internId (unique: true).
UniqueIndexAllows(st, doc) == ~\E k \in 1..Len(st) : st[k].internId = doc.internId

\* Schema validation at save(): the required paths are present and duration
\* casts to a number.
\* A save that validates nothing.
SchemaValidLax(doc) == TRUE

SchemaValid(doc) ==
  /\ doc.internId.t = "string" /\ doc.internId.s # << >>
  /\ doc.name.t = "string" /\ doc.name.s # << >>
  /\ doc.domain.t = "string" /\ doc.domain.s # << >>
  /\ doc.duration.t = "number"
  /\ doc.startingDate.t \notin {"undefined", "null"}
  /\ doc.completionDate.t \notin {"undefined", "null"}
  /\ doc.status \in {"active", "revoked"}

\* The message of the error a write turned down by the unique index rejects with.
DuplicateKeyError == "E11000 duplicate key error"

\* certificate.save() of a new document: "ok", or the error it rejects with.
SaveOutcome(st, doc, fault) ==
  IF ~SchemaValid(doc) THEN "Certificate validation failed"
  ELSE IF fault THEN "store unavailable"
  ELSE IF ~UniqueIndexAllows(st, doc) THEN DuplicateKeyError
  ELSE "ok"

\* data.email ? data.email.trim().toLowerCase() : undefined
EmailThrows(data) == TrimThrows(data.email)
EmailOf(data) ==
  IF Truthy(data.email) THEN Str(toLowerCase(trim(data.email.s))) ELSE Undef

\* new Certificate({...}) as both JSON insert paths build it from validated data.
NewCertificate(data, zone) ==
  [internId |-> Str(NormalKey(data.internId.s)),
   name |-> Str(trim(data.name.s)),
   domain |-> Str(trim(data.domain.s)),
   duration |-> ToNumber(data.duration),
   startingDate |-> normalizeDate(data.startingDate, zone),
   completionDate |-> normalizeDate(data.completionDate, zone),
   email |-> EmailOf(data),
   status |-> "active",
   oid |-> 0]

\* The pure steps of the JSON handlers on the records of the catalogue: what
\* extractCertificateData, validateCertificate and new Certificate give for each.
Extracted == [name \in DOMAIN Catalogue |-> extractCertificateData(Catalogue[name])]
Validated == [name \in DOMAIN Catalogue |-> validateCertificate(Extracted[name])]
Built ==
  [zone \in TimeZones |->
     [name \in DOMAIN Catalogue |-> NewCertificate(Extracted[name], zone)]]

(* ------------------------------ requests ------------------------------ *)

NoResp ==
  [status |-> 0, success |-> FALSE, message |-> "", example |-> FALSE,
   details |-> FALSE, total |-> 0, successful |-> 0, failed |-> 0, skipped |-> 0,
   errors |-> << >>, error |-> "", valid |-> FALSE]

Idle ==
  [op |-> "none", pc |-> "idle", batch |-> << >>, i |-> 0,
   successful |-> << >>, failed |-> << >>, skipped |-> << >>,
   key |-> << >>, oid |-> 0, found |-> << >>, ops |-> {}, token |-> FALSE,
   tmp |-> FALSE, resp |-> NoResp]

NotAvailable == Str(<<"N", "/", "A">>)

\* MAX_BULK_SIZE
MAX_BULK_SIZE == 1000

\* A request body of POST /api/verify/bulk: {} ("empty"), a body whose
\* certificates is missing or no array ("notArray"), or {certificates: [...]}.
BulkBody(kind, certificates) == [kind |-> kind, certificates |-> certificates]

\* A limit that is one short: a batch of MAX_BULK_SIZE is refused.
TooLargeOffByOne(n) == n >= MAX_BULK_SIZE

\* certificates.length > MAX_BULK_SIZE
TooLarge(n) == n > MAX_BULK_SIZE

\* The loop counter itself as the index.
IndexOfZeroBased(i) == i

\* const index = i + 1
IndexOf(i) == i + 1

Reject(q, status, message, example) ==
  [q EXCEPT !.pc = "done",
            !.resp = [NoResp EXCEPT !.status = status, !.message = message,
                                    !.example = example]]

\* The envelope checks of router.post('/bulk') up to the results accumulator.
BulkAccept(body) ==
  IF body.kind = "empty"
  THEN Reject([Idle EXCEPT !.op = "bulk"], 400, "Request body is empty", TRUE)
  ELSE IF body.kind = "notArray" \/ Len(body.certificates) = 0
  THEN Reject([Idle EXCEPT !.op = "bulk"], 400, "Please provide an array", TRUE)
  ELSE IF TooLarge(Len(body.certificates))
  THEN Reject([Idle EXCEPT !.op = "bulk"], 400, "Bulk insert limited", FALSE)
  ELSE [Idle EXCEPT !.op = "bulk", !.pc = "check", !.batch = body.certificates]

\* A failure that leaves the loop: the records after it are not processed.
PushFailedBreak(q, id, errors) ==
  [q EXCEPT !.failed = Append(@, [index |-> IndexOf(q.i), internId |-> id,
                                  errors |-> errors]),
            !.i = Len(q.batch), !.pc = "check"]

\* A duplicate that is passed over without an entry.
PushSkippedLost(q, key) == [q EXCEPT !.i = @ + 1, !.pc = "check"]

\* results.failed.push / results.skipped.push / results.successful.push, each
\* followed by the loop's i++.
PushFailed(q, id, errors) ==
  [q EXCEPT !.failed = Append(@, [index |-> IndexOf(q.i), internId |-> id,
                                  errors |-> errors]),
            !.i = @ + 1, !.pc = "check"]

PushSkipped(q, key) ==
  [q EXCEPT !.skipped = Append(@, [index |-> IndexOf(q.i), internId |-> Str(key),
                                   reason |-> "Certificate with this Intern ID already exists"]),
            !.i = @ + 1, !.pc = "check"]

PushSuccessful(q, doc) ==
  [q EXCEPT !.successful = Append(@, [index |-> IndexOf(q.i), internId |-> doc.internId,
                                      name |-> doc.name]),
            !.i = @ + 1, !.pc = "check"]

\* The outer catch of router.post('/bulk').
BulkServerError(q) ==
  [q EXCEPT !.pc = "done",
            !.resp = [NoResp EXCEPT !.status = 500,
                        !.message = "An error occurred while processing bulk insert"]]

\* A per-record catch that rethrows: the error reaches the outer catch.
CatchRecordRethrow(q, item, message) == BulkServerError(q)

\* The per-record catch: it reads item.internId again, which throws on a null
\* element and then leaves the loop for the outer catch.
CatchRecord(q, item, message) ==
  IF ReadThrows(item) THEN BulkServerError(q)
  ELSE PushFailed(q, JsOr(JsOr(item.f["internId"], item.f["Intern ID"]), NotAvailable),
                  <<message>>)

\* A duplicate check by the internId as submitted, neither trimmed nor
\* upper-cased.
BulkCheckedRawKey(q, st, fault) ==
  LET item == Catalogue[q.batch[q.i + 1]]
      data == Extracted[q.batch[q.i + 1]]
      v == Validated[q.batch[q.i + 1]]
  IN IF ReadThrows(item) THEN CatchRecord(q, item, "TypeError")
     ELSE IF v.threw THEN CatchRecord(q, item, "TypeError")
     ELSE IF v.errors # << >>
     THEN PushFailed(q, JsOr(data.internId, NotAvailable), v.errors)
     ELSE IF fault THEN CatchRecord(q, item, "store unavailable")
     ELSE IF Exists(st, data.internId.s)
     THEN PushSkipped(q, data.internId.s)
     ELSE [q EXCEPT !.pc = "save"]

\* One iteration up to the duplicate check: extract, validate, findOne.
BulkChecked(q, st, fault) ==
  LET item == Catalogue[q.batch[q.i + 1]]
      data == Extracted[q.batch[q.i + 1]]
      v == Validated[q.batch[q.i + 1]]
  IN IF ReadThrows(item) THEN CatchRecord(q, item, "TypeError")
     ELSE IF v.threw THEN CatchRecord(q, item, "TypeError")
     ELSE IF v.errors # << >>
     THEN PushFailed(q, JsOr(data.internId, NotAvailable), v.errors)
     ELSE IF fault THEN CatchRecord(q, item, "store unavailable")
     ELSE IF Exists(st, NormalKey(data.internId.s))
     THEN PushSkipped(q, NormalKey(data.internId.s))
     ELSE [q EXCEPT !.pc = "save"]

\* A report that attaches the lists only when a record failed.
BulkResponseDetailsIfFailed(q) ==
  LET hasFailures == Len(q.failed) > 0
      hasSkipped == Len(q.skipped) > 0
      allFailed == Len(q.successful) = 0
  IN [status |-> IF allFailed THEN 400
                 ELSE IF hasFailures \/ hasSkipped THEN 207 ELSE 201,
      success |-> ~allFailed,
      message |-> "Processed",
      example |-> FALSE,
      details |-> hasFailures,
      total |-> Len(q.batch),
      successful |-> Len(q.successful),
      failed |-> Len(q.failed),
      skipped |-> Len(q.skipped),
      errors |-> << >>, error |-> "", valid |-> FALSE]

\* The response of a processed batch.
BulkResponse(q) ==
  LET hasFailures == Len(q.failed) > 0
      hasSkipped == Len(q.skipped) > 0
      allFailed == Len(q.successful) = 0
  IN [status |-> IF allFailed THEN 400
                 ELSE IF hasFailures \/ hasSkipped THEN 207 ELSE 201,
      success |-> ~allFailed,
      message |-> "Processed",
      example |-> FALSE,
      details |-> hasFailures \/ hasSkipped,
      total |-> Len(q.batch),
      successful |-> Len(q.successful),
      failed |-> Len(q.failed),
      skipped |-> Len(q.skipped),
      errors |-> << >>, error |-> "", valid |-> FALSE]

\* POST /api/verify/bulk arrives: the envelope is checked.
BulkReceive(r, body) ==
  /\ req[r].pc = "idle"
  /\ req' = [req EXCEPT ![r] = BulkAccept(body)]
  /\ UNCHANGED <<store, tz>>

\* The loop body up to `await Certificate.findOne`.
BulkCheck(r, fault) ==
  /\ req[r].op = "bulk" /\ req[r].pc = "check"
  /\ req[r].i < Len(req[r].batch)
  /\ req' = [req EXCEPT ![r] = BulkChecked(req[r], store, fault)]
  /\ UNCHANGED <<store, tz>>

\* A save that is not awaited: the record is reported and the loop goes on
\* before the write has reached the collection.
BulkSaveUnawaited(r, fault) ==
  /\ req[r].op = "bulk" /\ req[r].pc = "save"
  /\ req' = [req EXCEPT ![r] = PushSuccessful(req[r], Built[tz][req[r].batch[req[r].i + 1]])]
  /\ store' = store
  /\ UNCHANGED tz

\* A save whose write reaches the collection although the call fails: the record
\* is reported as failed and is stored all the same.
BulkSaveFaultWrites(r, fault) ==
  /\ req[r].op = "bulk" /\ req[r].pc = "save"
  /\ LET q == req[r]
         item == Catalogue[q.batch[q.i + 1]]
         doc == Built[tz][q.batch[q.i + 1]]
         outcome == SaveOutcome(store, doc, fault)
     IN IF outcome \in {"ok", "store unavailable"}
        THEN /\ Len(store) < MaxStore
             /\ store' = Inserted(store, req, doc)
             /\ req' = [req EXCEPT ![r] =
                          IF outcome = "ok" THEN PushSuccessful(q, doc)
                          ELSE CatchRecord(q, item, outcome)]
        ELSE /\ req' = [req EXCEPT ![r] = CatchRecord(q, item, outcome)]
             /\ store' = store
  /\ UNCHANGED tz

\* The rest of the loop body: build the document, `await certificate.save()`.
BulkSave(r, fault) ==
  /\ req[r].op = "bulk" /\ req[r].pc = "save"
  /\ LET q == req[r]
         item == Catalogue[q.batch[q.i + 1]]
         data == Extracted[q.batch[q.i + 1]]
         doc == Built[tz][q.batch[q.i + 1]]
         outcome == SaveOutcome(store, doc, fault)
     IN IF EmailThrows(data)
        THEN /\ req' = [req EXCEPT ![r] = CatchRecord(q, item, "TypeError")]
             /\ store' = store
        ELSE IF outcome = "ok"
        THEN /\ Len(store) < MaxStore
             /\ store' = Inserted(store, req, doc)
             /\ req' = [req EXCEPT ![r] = PushSuccessful(q, doc)]
        ELSE /\ req' = [req EXCEPT ![r] = CatchRecord(q, item, outcome)]
             /\ store' = store
  /\ UNCHANGED tz

\* The loop is over: the report is sent.
BulkRespond(r) ==
  /\ req[r].op = "bulk" /\ req[r].pc = "check"
  /\ req[r].i = Len(req[r].batch)
  /\ req' = [req EXCEPT ![r] = [@ EXCEPT !.pc = "done", !.resp = BulkResponse(req[r])]]
  /\ UNCHANGED <<store, tz>>

\* The response has been delivered; the slot serves the next request.
Finish(r) ==
  /\ req[r].pc = "done"
  /\ req' = [req EXCEPT ![r] = Idle]
  /\ UNCHANGED <<store, tz>>

(* ------------------------ POST /api/verify (single) ------------------- *)

Answer(q, status, message) ==
  [q EXCEPT !.pc = "done",
            !.resp = [NoResp EXCEPT !.status = status, !.message = message,
                                    !.success = status \in {200, 201}]]

\* The catch of router.post('/'): status 500 with error.message.
SingleServerError(q, error) ==
  [Answer(q, 500, "An error occurred while adding the certificate")
     EXCEPT !.resp.error = error]

\* router.post('/') up to `await Certificate.findOne`: body is "empty" ({}) or
\* the name of the submitted record.
SingleChecked(body, st, fault) ==
  LET q == [Idle EXCEPT !.op = "single", !.batch = <<body>>]
      item == Catalogue[body]
      data == Extracted[body]
      v == Validated[body]
  IN IF body = "empty"
     THEN Reject(q, 400, "Request body is empty", TRUE)
     ELSE IF ReadThrows(item) \/ v.threw THEN SingleServerError(q, "TypeError")
     ELSE IF v.errors # << >>
     THEN [Answer(q, 400, "Validation failed") EXCEPT !.resp.errors = v.errors]
     ELSE IF fault THEN SingleServerError(q, "store unavailable")
     ELSE IF Exists(st, NormalKey(data.internId.s))
     THEN Answer(q, 409, "Certificate with this Intern ID already exists")
     ELSE [q EXCEPT !.pc = "save"]

SingleReceive(r, body, fault) ==
  /\ req[r].pc = "idle"
  /\ req' = [req EXCEPT ![r] = SingleChecked(body, store, fault)]
  /\ UNCHANGED <<store, tz>>

\* The rest of router.post('/'): build the document, `await certificate.save()`.
SingleSave(r, fault) ==
  /\ req[r].op = "single" /\ req[r].pc = "save"
  /\ LET q == req[r]
         data == Extracted[q.batch[1]]
         doc == Built[tz][q.batch[1]]
     IN IF EmailThrows(data)
        THEN /\ store' = store
             /\ req' = [req EXCEPT ![r] = SingleServerError(q, "TypeError")]
        ELSE IF SaveOutcome(store, doc, fault) = "ok"
        THEN /\ Len(store) < MaxStore
             /\ store' = Inserted(store, req, doc)
             /\ req' = [req EXCEPT ![r] = Answer(q, 201, "Certificate added successfully")]
        ELSE /\ store' = store
             /\ req' = [req EXCEPT ![r] =
                          SingleServerError(q, SaveOutcome(store, doc, fault))]
  /\ UNCHANGED tz

(* ---------------------- GET /api/verify/:internId --------------------- *)

RevokedMessage == "This certificate has been revoked and is no longer valid."

\* A lookup that does not look at the status of the certificate it finds.
LookupAnswerAnyStatus(key, st, fault) ==
  IF trim(key) = << >>
  THEN [NoResp EXCEPT !.status = 400, !.message = "Intern ID is required"]
  ELSE IF fault
  THEN [NoResp EXCEPT !.status = 500,
                      !.message = "An error occurred while verifying the certificate"]
  ELSE IF ~Exists(st, NormalKey(key))
  THEN [NoResp EXCEPT !.status = 404, !.message = "Certificate not found"]
  ELSE [NoResp EXCEPT !.status = 200, !.valid = TRUE]

\* The response of router.get('/:internId').
LookupAnswer(key, st, fault) ==
  IF trim(key) = << >>
  THEN [NoResp EXCEPT !.status = 400, !.message = "Intern ID is required"]
  ELSE IF fault
  THEN [NoResp EXCEPT !.status = 500,
                      !.message = "An error occurred while verifying the certificate"]
  ELSE IF ~Exists(st, NormalKey(key))
  THEN [NoResp EXCEPT !.status = 404, !.message = "Certificate not found"]
  ELSE IF findOne(st, NormalKey(key)).status = "revoked"
  THEN [NoResp EXCEPT !.status = 403, !.message = RevokedMessage]
  ELSE [NoResp EXCEPT !.status = 200, !.valid = TRUE]

Lookup(r, key, fault) ==
  /\ req[r].pc = "idle"
  /\ req' = [req EXCEPT ![r] = [Idle EXCEPT !.op = "lookup", !.pc = "done", !.key = key,
                                            !.resp = LookupAnswer(key, store, fault)]]
  /\ UNCHANGED <<store, tz>>

(* ---------------------- PUT /api/verify/:internId --------------------- *)

ActiveText == <<"a", "c", "t", "i", "v", "e">>
RevokedText == <<"r", "e", "v", "o", "k", "e", "d">>

\* The bodies of the updates, by name.
UpdateBodies ==
  [revoke |-> Obj([status |-> Str(RevokedText), internId |-> Str(<<"Y", "1">>)]),
   rename |-> Obj([name |-> Str(<<" ", "c">>), status |-> Str(<<"x">>)]),
   badDate |-> Obj([name |-> Str(<<"c">>), startingDate |-> Str(<<"x", "y">>)]),
   nullDate |-> Obj([name |-> Str(<<"c">>), completionDate |-> Null]),
   blankName |-> Obj([name |-> Str(<<" ">>), status |-> Str(RevokedText)])]

\* An allow-list that lets the key through.
allowedUpdatesWithKey ==
  {"internId", "name", "domain", "duration", "startingDate", "completionDate",
   "email", "status"}

allowedUpdates ==
  {"name", "domain", "duration", "startingDate", "completionDate", "email", "status"}

\* req.body[field] !== undefined ? req.body[field] : updateData[field]
UpdateValue(body, field) ==
  LET updateData == extractCertificateData(body)
  IN IF body.f[field] # Undef \/ field = "status" THEN body.f[field]
     ELSE updateData[field]

\* The fields the forEach over allowedUpdates puts into `updates`.
UpdatedFields(body) ==
  {field \in allowedUpdates :
     /\ UpdateValue(body, field) # Undef
     /\ field = "status" =>
          UpdateValue(body, field) \in {Str(ActiveText), Str(RevokedText)}}

\* value.trim() on the email throws for a truthy non-string.
UpdateThrows(body) ==
  "email" \in UpdatedFields(body) /\ TrimThrows(UpdateValue(body, "email"))

\* String(value) as the schema casts a non-string name or domain.
CastString(v) ==
  IF v.t = "number" THEN Str(PadNat(v.n, 1)) ELSE v

\* updates[field] as the forEach computes it (status as the schema's enum).
UpdateField(body, field, zone) ==
  LET value == UpdateValue(body, field)
  IN CASE field = "email" ->
            IF Truthy(value) THEN Str(toLowerCase(trim(value.s))) ELSE Undef
       [] field \in {"startingDate", "completionDate"} -> normalizeDate(value, zone)
       [] field = "duration" -> ToNumber(value)
       [] field = "status" -> IF value = Str(RevokedText) THEN "revoked" ELSE "active"
       [] OTHER -> IF IsString(value) THEN Str(trim(value.s)) ELSE CastString(value)

\* The date checks on `updates`: the message of the 400, or "" when they pass.
UpdateDateDefect(body, zone) ==
  LET bad(field) ==
        /\ field \in UpdatedFields(body)
        /\ Truthy(UpdateField(body, field, zone))
        /\ IsInvalidDate(parseDate(UpdateField(body, field, zone)))
  IN IF bad("startingDate") THEN "Invalid Starting Date format"
     ELSE IF bad("completionDate") THEN "Invalid Completion Date format"
     ELSE ""

\* What the handler works out of a body before it touches the document.
UpdatesOf(body, zone) ==
  [throws |-> UpdateThrows(body),
   defect |-> IF UpdateThrows(body) THEN "" ELSE UpdateDateDefect(body, zone),
   fields |-> UpdatedFields(body),
   values |-> [field \in UpdatedFields(body) |->
                 IF UpdateThrows(body) THEN Undef ELSE UpdateField(body, field, zone)]]

Updates ==
  [zone \in TimeZones |->
     [name \in DOMAIN UpdateBodies |-> UpdatesOf(UpdateBodies[name], zone)]]

\* Object.assign(certificate, updates)
Assigned(doc, updates) ==
  [f \in DOMAIN doc |-> IF f \in updates.fields THEN updates.values[f] ELSE doc[f]]

\* save() of a loaded document validates it and writes its modified paths to the
\* stored document with its _id; with no modified path it writes nothing, and
\* with some and no stored document of that _id it rejects.
Written(st, snapshot, doc) ==
  [k \in 1..Len(st) |->
     IF st[k].oid # doc.oid THEN st[k]
     ELSE [f \in DOMAIN doc |-> IF doc[f] # snapshot[f] THEN doc[f] ELSE st[k][f]]]

\* router.put('/:internId') up to `await Certificate.findOne`.
UpdateFound(key, body, st, fault) ==
  LET q == [Idle EXCEPT !.op = "update", !.key = key, !.batch = <<body>>]
  IN IF trim(key) = << >> THEN Answer(q, 400, "Intern ID is required")
     ELSE IF fault THEN Answer(q, 500, "An error occurred while updating the certificate")
     ELSE IF ~Exists(st, NormalKey(key)) THEN Answer(q, 404, "Certificate not found")
     ELSE [q EXCEPT !.pc = "save", !.oid = findOne(st, NormalKey(key)).oid,
                    !.found = <<findOne(st, NormalKey(key))>>]

UpdateReceive(r, key, body, fault) ==
  /\ req[r].pc = "idle"
  /\ req' = [req EXCEPT ![r] = UpdateFound(key, body, store, fault)]
  /\ UNCHANGED <<store, tz>>

\* The rest of router.put('/:internId'): updates, date checks, assign, save.
UpdateSave(r, fault) ==
  /\ req[r].op = "update" /\ req[r].pc = "save"
  /\ LET q == [req[r] EXCEPT !.oid = 0, !.found = << >>]
         updates == Updates[tz][req[r].batch[1]]
         snapshot == req[r].found[1]
         doc == Assigned(snapshot, updates)
         failed == Answer(q, 500, "An error occurred while updating the certificate")
     IN IF updates.throws
        THEN req' = [req EXCEPT ![r] = failed] /\ store' = store
        ELSE IF updates.defect # ""
        THEN /\ req' = [req EXCEPT ![r] = Answer(q, 400, updates.defect)]
             /\ store' = store
        ELSE IF ~SchemaValid(doc)
        THEN req' = [req EXCEPT ![r] = failed] /\ store' = store
        ELSE IF doc # snapshot
                  /\ (fault \/ ~\E k \in 1..Len(store) : store[k].oid = doc.oid)
        THEN req' = [req EXCEPT ![r] = failed] /\ store' = store
        ELSE /\ store' = Written(store, snapshot, doc)
             /\ req' = [req EXCEPT ![r] = Answer(q, 200, "Certificate updated successfully")]
  /\ UNCHANGED tz

(* --------------------- DELETE /api/verify/:internId ------------------- *)

\* The collection without its first document of the key (findOneAndDelete).
Deleted(st, key) ==
  LET k == CHOOSE j \in Matching(st, key) : \A j2 \in Matching(st, key) : j <= j2
  IN SubSeq(st, 1, k - 1) \o SubSeq(st, k + 1, Len(st))

DeleteByKey(r, key, fault) ==
  /\ req[r].pc = "idle"
  /\ LET q == [Idle EXCEPT !.op = "delete", !.key = key]
     IN IF trim(key) = << >>
        THEN req' = [req EXCEPT ![r] = Answer(q, 400, "Intern ID is required")]
             /\ store' = store
        ELSE IF fault
        THEN /\ req' = [req EXCEPT ![r] =
                          Answer(q, 500, "An error occurred while deleting the certificate")]
             /\ store' = store
        ELSE IF ~Exists(store, NormalKey(key))
        THEN req' = [req EXCEPT ![r] = Answer(q, 404, "Certificate not found")]
             /\ store' = store
        ELSE /\ store' = Deleted(store, NormalKey(key))
             /\ req' = [req EXCEPT ![r] = Answer(q, 200, "Certificate deleted successfully")]
  /\ UNCHANGED tz

(* ------------------- POST /api/certificates/bulk-upload --------------- *)

\* The calendar day `days` days after the first day of month m of year y.
RECURSIVE DayAfter(_, _, _)
DayAfter(y, m, days) ==
  IF days >= (IF IsLeap(y) THEN 366 ELSE 365) /\ m = 1
  THEN DayAfter(y + 1, 1, days - (IF IsLeap(y) THEN 366 ELSE 365))
  ELSE IF days >= DaysInMonth(y, m) THEN DayAfter(y, m + 1, days - DaysInMonth(y, m))
  ELSE Ymd(y, m, days + 1)

\* value ? new Date((value - 25569) * 86400 * 1000) : null, for a sheet cell: a
\* whole serial number from 25569 on is the UTC midnight of its day, a text that
\* is no number an Invalid Date. (Earlier serials are not among the inputs.)
SerialDate(v) ==
  IF ~Truthy(v) THEN Null
  ELSE IF v.t = "number" /\ v.n >= 25569 THEN DateOf(DayAfter(1970, 1, v.n - 25569))
  ELSE IF IsString(v) /\ AllDigits(trim(v.s)) /\ ToNat(trim(v.s)) >= 25569
  THEN DateOf(DayAfter(1970, 1, ToNat(trim(v.s)) - 25569))
  ELSE InvalidDate

\* String(value || '')
JsString(v) ==
  IF ~Truthy(v) THEN << >> ELSE IF IsString(v) THEN v.s ELSE PadNat(v.n, 1)

\* The digits a text starts with.
RECURSIVE LeadingDigits(_)
LeadingDigits(x) ==
  IF x # << >> /\ Head(x) \in Digits THEN <<Head(x)>> \o LeadingDigits(Tail(x))
  ELSE << >>

\* parseInt(value) || 0
ParseIntOrZero(v) ==
  IF v.t = "number" THEN v
  ELSE IF IsString(v) /\ LeadingDigits(TrimLeft(v.s)) # << >>
  THEN Num(ToNat(LeadingDigits(TrimLeft(v.s))))
  ELSE Num(0)

\* value.replace(/\w\S*/g, ...): each word starts upper case and goes on lower
\* case (the words of the model's texts are letters and digits).
TitleCase(x) ==
  [i \in 1..Len(x) |->
     IF i = 1 \/ x[i - 1] = " " THEN UpperChar(x[i]) ELSE LowerChar(x[i])]

\* A sheet row: its cells under the six headers, '' for a cell left empty.
Row(name, domain, duration, internId, starting, completion) ==
  [Name |-> name, Domain |-> domain, Duration |-> duration, InternID |-> internId,
   StartingDate |-> starting, CompletionDate |-> completion]

Empty == Str(<< >>)

\* The rows of the model's sheets, by name.
Rows ==
  [x1 |-> Row(Str(<<"a", " ", "b">>), Str(<<"D">>), Num(2), Str(<<"x", "1", " ">>),
              Num(45292), Num(45352)),
   y1 |-> Row(Str(<<"b">>), Str(<<"D">>), Str(<<"2">>), Str(<<"Y", "1">>),
              Empty, Str(<<"x">>)),
   noDomain |-> Row(Str(<<"b">>), Empty, Num(2), Str(<<"y", "1">>),
                    Num(45292), Num(45352)),
   blank |-> Row(Empty, Str(<<"D">>), Num(2), Str(<<"x", "1">>), Empty, Empty)]

\* parseExcel on one data row, and the mapping of the route onto the schema's
\* fields; bulkWrite's upsert inserts it with the schema's default status.
ParsedRow(row) ==
  [internId |-> Str(trim(toUpperCase(JsString(row.InternID)))),
   name |-> Str(TitleCase(trim(JsString(row.Name)))),
   domain |-> Str(trim(JsString(row.Domain))),
   duration |-> ParseIntOrZero(row.Duration),
   startingDate |-> SerialDate(row.StartingDate),
   completionDate |-> SerialDate(row.CompletionDate),
   email |-> Undef,
   status |-> "active",
   oid |-> 0]

\* The certificates of a sheet: rows with an empty first cell are skipped, then
\* those with neither internId nor name are filtered out.
RECURSIVE Certificates(_)
Certificates(file) ==
  IF file = << >> THEN << >>
  ELSE LET row == Rows[Head(file)]
           cert == ParsedRow(row)
       IN IF Truthy(row.Name) /\ (Truthy(cert.internId) \/ Truthy(cert.name))
          THEN <<cert>> \o Certificates(Tail(file))
          ELSE Certificates(Tail(file))

\* A validation loop that lets every certificate through.
LacksNothing(cert) == FALSE

\* if (!cert.internId || !cert.name || !cert.domain)
LacksRequired(cert) ==
  ~Truthy(cert.internId) \/ ~Truthy(cert.name) \/ ~Truthy(cert.domain)

UploadError == "Error in bulk upload"

\* The sheets of the model.
Sheets ==
  {<< >>, <<"x1">>, <<"x1", "y1">>, <<"y1", "noDomain">>, <<"blank", "x1">>,
   <<"y1", "y1">>}

\* What parseExcel and the mapping give for each sheet.
Parsed == [rows \in Sheets |-> Certificates(rows)]

\* What the request carries: no file part ("none"), a file xlsx.readFile throws
\* on ("unreadable"), or a sheet with its data rows (the names of the rows).
\* multer has written every file it received to the uploads directory before
\* the handler runs: the slot's tmp says whether that file is still there.
File(kind, rows) == [kind |-> kind, rows |-> rows]

\* router.post('/bulk-upload') up to `await Certificate.bulkWrite`. bulkWrite of no operation at all rejects or resolves
\* with the version of the driver: `rejects` chooses.
UploadParsed(file, rejects) ==
  LET q == [Idle EXCEPT !.op = "upload", !.tmp = (file.kind # "none")]
      unlinked == [q EXCEPT !.tmp = FALSE]
      certs == Parsed[file.rows]
  IN IF file.kind = "none" THEN Answer(q, 400, "No file uploaded")
     ELSE IF file.kind = "unreadable" THEN Answer(unlinked, 500, UploadError)
     ELSE IF \E k \in 1..Len(certs) : LacksRequired(certs[k])
     THEN Answer(q, 400, "Invalid data in Excel file")
     ELSE IF certs = << >>
     THEN (IF rejects THEN Answer(unlinked, 500, UploadError)
           ELSE Answer(unlinked, 200, "Successfully processed"))
     ELSE [q EXCEPT !.pc = "write", !.ops = {certs[k] : k \in 1..Len(certs)}]

UploadReceive(r, file, rejects) ==
  /\ req[r].pc = "idle"
  /\ req' = [req EXCEPT ![r] = UploadParsed(file, rejects)]
  /\ UNCHANGED <<store, tz>>

\* An upsert with $set in place of $setOnInsert: a matching document takes the
\* values of the sheet's row.
UploadWriteSet(r, fault) ==
  /\ req[r].op = "upload" /\ req[r].pc = "write" /\ req[r].ops # {}
  /\ \E cert \in req[r].ops :
       /\ req' = [req EXCEPT ![r].ops = @ \ {cert}]
       /\ IF Exists(store, cert.internId.s)
          THEN store' = [k \in 1..Len(store) |->
                           IF store[k].internId = cert.internId
                           THEN [cert EXCEPT !.oid = store[k].oid]
                           ELSE store[k]]
          ELSE /\ Len(store) < MaxStore
               /\ store' = Inserted(store, req, cert)
  /\ UNCHANGED tz

\* One operation of the unordered bulkWrite: updateOne with $setOnInsert and
\* upsert inserts the certificate when no document has its internId and changes
\* nothing when one has.
UploadWrite(r, fault) ==
  /\ req[r].op = "upload" /\ req[r].pc = "write" /\ req[r].ops # {}
  /\ \E cert \in req[r].ops :
       IF fault
       THEN /\ req' = [req EXCEPT ![r] =
                         Answer([req[r] EXCEPT !.ops = {}, !.tmp = FALSE], 500, UploadError)]
            /\ store' = store
       ELSE IF Exists(store, cert.internId.s)
       THEN /\ req' = [req EXCEPT ![r].ops = @ \ {cert}]
            /\ store' = store
       ELSE /\ Len(store) < MaxStore
            /\ store' = Inserted(store, req, cert)
            /\ req' = [req EXCEPT ![r].ops = @ \ {cert}]
  /\ UNCHANGED tz

UploadRespond(r) ==
  /\ req[r].op = "upload" /\ req[r].pc = "write" /\ req[r].ops = {}
  /\ req' = [req EXCEPT ![r] =
                Answer([req[r] EXCEPT !.tmp = FALSE], 200, "Successfully processed")]
  /\ UNCHANGED <<store, tz>>

RECURSIVE SeqsUpTo(_, _)
SeqsUpTo(S, n) ==
  IF n = 0 THEN {<< >>}
  ELSE LET shorter == SeqsUpTo(S, n - 1)
       IN shorter \cup {Append(q, x) : q \in {p \in shorter : Len(p) = n - 1}, x \in S}

\* The bodies the sequential specification submits.
BulkBodies ==
  {BulkBody("empty", << >>), BulkBody("notArray", << >>)}
    \cup {BulkBody("array", b) : b \in SeqsUpTo(Items, MaxBatch)}

(* ------------------- sequential runs of the bulk import --------------- *)

Indices(bucket) == {bucket[k].index : k \in 1..Len(bucket)}

NoHist ==
  [start |-> << >>, size |-> 0, faulted |-> FALSE, resub |-> FALSE,
   prevSucc |-> {}, prevStore |-> << >>]

\* The iteration at hand gets as far as its findOne / its insert.
ReachesFindOne(q) ==
  LET item == Catalogue[q.batch[q.i + 1]]
      v == Validated[q.batch[q.i + 1]]
  IN ~ReadThrows(item) /\ ~v.threw /\ v.errors = << >>

ReachesInsert(q, zone) ==
  LET data == Extracted[q.batch[q.i + 1]]
  IN ~EmailThrows(data) /\ SchemaValid(Built[zone][q.batch[q.i + 1]])

\* A batch arrives while no other request is served.
SeqReceive ==
  \E body \in BulkBodies :
    /\ BulkReceive(1, body)
    /\ hist' = [NoHist EXCEPT !.start = store, !.size = Len(body.certificates)]
    /\ UNCHANGED <<served, programs>>

\* The outcomes of a store call: it answers, or it fails. A resubmitted batch is
\* followed with the store answering (its runs with failures are those of a
\* first submission from the same store).
Faults == IF hist.resub THEN {FALSE} ELSE BOOLEAN

SeqCheck ==
  \E fault \in Faults :
    /\ BulkCheck(1, fault)
    /\ hist' = [hist EXCEPT !.faulted = @ \/ (fault /\ ReachesFindOne(req[1]))]
    /\ UNCHANGED <<served, programs>>

SeqSave ==
  \E fault \in Faults :
    /\ BulkSave(1, fault)
    /\ hist' = [hist EXCEPT !.faulted = @ \/ (fault /\ ReachesInsert(req[1], tz))]
    /\ UNCHANGED <<served, programs>>

SeqRespond ==
  /\ BulkRespond(1)
  /\ UNCHANGED <<hist, served, programs>>

SeqFinish ==
  /\ Finish(1)
  /\ hist' = NoHist
  /\ UNCHANGED <<served, programs>>

\* The client, having got the report of a batch during which the store answered
\* every call, submits the same body again, with no other request in between.
SeqResubmit ==
  /\ req[1].op = "bulk" /\ req[1].pc = "done"
  /\ req[1].batch # << >>
  /\ ~hist.faulted /\ ~hist.resub
  /\ req' = [req EXCEPT ![1] = BulkAccept(BulkBody("array", req[1].batch))]
  /\ hist' = [start |-> store, size |-> Len(req[1].batch), faulted |-> FALSE,
              resub |-> TRUE, prevSucc |-> Indices(req[1].successful),
              prevStore |-> store]
  /\ UNCHANGED <<store, tz, served, programs>>

Init ==
  /\ store = << >>
  /\ req = [r \in Reqs |-> Idle]
  /\ tz \in TimeZones
  /\ served = 0
  /\ hist = NoHist
  /\ programs = << >>

NextBulk ==
  SeqReceive \/ SeqCheck \/ SeqSave \/ SeqRespond \/ SeqFinish \/ SeqResubmit

SpecBulk == Init /\ [][NextBulk]_vars

(* ------------------- properties of the bulk import -------------------- *)

\* The request of slot r went through the record loop (its envelope was accepted).
InLoop(r) == req[r].op = "bulk" /\ req[r].batch # << >>
\* ... and has been answered.
Answered(r) == InLoop(r) /\ req[r].pc = "done"
\* ... with the report of a processed batch.
Reported(r) == Answered(r) /\ req[r].resp.status \in {201, 207, 400}

ItemAt(r, p) == Catalogue[req[r].batch[p]]
KeyAt(r, p) == NormalKey(extractCertificateData(ItemAt(r, p)).internId.s)
StoredKeys(st) == {st[k].internId.s : k \in 1..Len(st)}

\* A well-formed record of the data model: it passes validateCertificate, its
\* duration is a number and its email, if any, is a string.
ValidRecord(item) ==
  LET data == extractCertificateData(item)
      v == validateCertificate(data)
  IN /\ item.kind = "object"
     /\ ~v.threw /\ v.errors = << >>
     /\ ToNumber(data.duration).t = "number"
     /\ ~EmailThrows(data)

\* A record that lacks `domain` and nothing else.
LacksDomain(item) ==
  LET v == validateCertificate(extractCertificateData(item))
  IN item.kind = "object" /\ ~v.threw /\ v.errors = <<"Domain is required">>

\* C1: every accepted batch, whatever its elements and whatever the store calls
\* answer, is processed to its last record and answered with the report (201, 207
\* or 400), never with the 500 of the outer catch.
C1_NoBatchAbort ==
  \A r \in Reqs :
    Answered(r) =>
      /\ req[r].resp.status \in {201, 207, 400}
      /\ req[r].i = Len(req[r].batch)

\* C2: a batch of N well-formed records, with pairwise distinct keys (internId
\* trimmed and upper-cased) none of which is stored, plus one record that lacks
\* `domain`, at any position, processed with the store answering every call: the
\* report counts 1 failed, N successful and total N+1, the failed entry is the
\* record without domain, every one of the N records is stored, and the answer is
\* not the 500.
C2_Shape(r) ==
  LET n == Len(req[r].batch)
  IN \E j \in 1..n :
       /\ LacksDomain(ItemAt(r, j))
       /\ \A p \in (1..n) \ {j} :
            /\ ValidRecord(ItemAt(r, p))
            /\ KeyAt(r, p) \notin StoredKeys(hist.start)
            /\ \A p2 \in (1..n) \ {j, p} : KeyAt(r, p2) # KeyAt(r, p)

C2_Isolation ==
  (Answered(1) /\ ~hist.faulted /\ C2_Shape(1)) =>
    LET q == req[1]
        n == Len(q.batch)
    IN /\ q.resp.status \in {207, 400}
       /\ q.resp.total = n /\ q.resp.failed = 1 /\ q.resp.successful = n - 1
       /\ q.resp.skipped = 0
       /\ \A p \in 1..n :
            IF LacksDomain(ItemAt(1, p)) THEN Indices(q.failed) = {p}
            ELSE KeyAt(1, p) \in StoredKeys(store)

C2_Witness ==
  /\ Answered(1) /\ ~hist.faulted /\ C2_Shape(1)
  /\ Len(req[1].batch) = 3
  /\ LacksDomain(ItemAt(1, 2))
  /\ req[1].resp.successful = 2

\* C3: the buckets partition the batch. While the loop runs, after k records the
\* three buckets hold exactly k entries, one for each of the positions 1..k; in the
\* report, the counts of successful, failed and skipped add up to total.
C3_Partition ==
  \A r \in Reqs :
    InLoop(r) =>
      LET q == req[r]
          S == Indices(q.successful)
          F == Indices(q.failed)
          K == Indices(q.skipped)
      IN /\ Len(q.successful) + Len(q.failed) + Len(q.skipped) = q.i
         /\ S \cup F \cup K = 1..q.i
         /\ S \cap F = {} /\ S \cap K = {} /\ F \cap K = {}
         /\ Reported(r) =>
              /\ q.i = q.resp.total /\ q.resp.total = Len(q.batch)
              /\ q.resp.successful = Len(q.successful)
              /\ q.resp.failed = Len(q.failed)
              /\ q.resp.skipped = Len(q.skipped)
              /\ q.resp.successful + q.resp.failed + q.resp.skipped = q.resp.total

C3_Witness ==
  /\ Reported(1)
  /\ req[1].resp.successful = 1 /\ req[1].resp.failed = 1 /\ req[1].resp.skipped = 1

\* C4: every entry of a bucket carries the 1-based position of the record it
\* reports (its internId, and for a success its name, are those of the element at
\* that position), and within a bucket the indices increase.
Increasing(bucket) ==
  \A a, b \in 1..Len(bucket) : a < b => bucket[a].index < bucket[b].index

RawId(item) == JsOr(JsOr(item.f["internId"], item.f["Intern ID"]), NotAvailable)

C4_IndexFidelity ==
  \A r \in Reqs :
    InLoop(r) =>
      LET q == req[r]
      IN /\ Increasing(q.successful) /\ Increasing(q.failed) /\ Increasing(q.skipped)
         /\ \A k \in 1..Len(q.successful) :
              LET e == q.successful[k]
              IN /\ e.index \in 1..q.i
                 /\ ValidRecord(ItemAt(r, e.index))
                 /\ e.internId = Str(KeyAt(r, e.index))
                 /\ e.name = Str(trim(extractCertificateData(ItemAt(r, e.index)).name.s))
         /\ \A k \in 1..Len(q.skipped) :
              LET e == q.skipped[k]
              IN /\ e.index \in 1..q.i
                 /\ e.internId = Str(KeyAt(r, e.index))
         /\ \A k \in 1..Len(q.failed) :
              LET e == q.failed[k]
              IN /\ e.index \in 1..q.i
                 /\ e.internId = RawId(ItemAt(r, e.index))
                 /\ (ValidRecord(ItemAt(r, e.index)) => e.errors = <<"store unavailable">>)

\* A success at position 3 behind a failure and a skip.
C4_Witness ==
  /\ Reported(1)
  /\ Indices(req[1].failed) = {1} /\ Indices(req[1].skipped) = {2}
  /\ Indices(req[1].successful) = {3}

\* C5: `success` is false only if every record of the batch failed: with a record
\* in successful or in skipped, `success` is true.
C5_SuccessUnlessAllFailed ==
  \A r \in Reqs :
    (Reported(r) /\ Len(req[r].successful) + Len(req[r].skipped) > 0)
      => req[r].resp.success

\* C6: the status is 400 exactly when every record failed, 201 exactly when every
\* record succeeded, and 207 otherwise.
C6_StatusSelection ==
  \A r \in Reqs :
    Reported(r) =>
      LET q == req[r]
          n == Len(q.batch)
      IN /\ (q.resp.status = 400) <=> (Len(q.failed) = n)
         /\ (q.resp.status = 201) <=> (Len(q.successful) = n)
         /\ (q.resp.status = 207) <=>
              (Len(q.successful) > 0 /\ Len(q.failed) + Len(q.skipped) > 0)

\* C7: a batch submitted again with no request in between: every record that was
\* successful the first time is skipped with the duplicate reason, nothing is
\* inserted, and the store stays as the first submission left it.
C7_Reimport ==
  hist.resub =>
    /\ store = hist.prevStore
    /\ req[1].successful = << >>
    /\ Answered(1) =>
         \A p \in hist.prevSucc :
           \E k \in 1..Len(req[1].skipped) :
             /\ req[1].skipped[k].index = p
             /\ req[1].skipped[k].reason = "Certificate with this Intern ID already exists"

C7_Witness ==
  /\ hist.resub /\ Answered(1)
  /\ Cardinality(hist.prevSucc) = 2
  /\ Len(req[1].skipped) = 2

\* C8: records are handled in input order and an insert lands before the next
\* duplicate check. With the store answering every call, at every point of the
\* loop each well-formed record handled so far is successful when its key was not
\* stored at the start and no well-formed record before it in the batch has the
\* key, and is skipped otherwise; the stored document of the key holds the data of
\* the first of them.
FirstOfKey(r, p) ==
  ~\E p2 \in 1..(p - 1) : ValidRecord(ItemAt(r, p2)) /\ KeyAt(r, p2) = KeyAt(r, p)

C8_InOrder ==
  (InLoop(1) /\ ~hist.faulted) =>
    \A p \in 1..req[1].i :
      ValidRecord(ItemAt(1, p)) =>
        IF KeyAt(1, p) \notin StoredKeys(hist.start) /\ FirstOfKey(1, p)
        THEN /\ p \in Indices(req[1].successful)
             /\ Cardinality(Matching(store, KeyAt(1, p))) = 1
             /\ [findOne(store, KeyAt(1, p)) EXCEPT !.oid = 0]
                  = NewCertificate(extractCertificateData(ItemAt(1, p)), tz)
        ELSE p \in Indices(req[1].skipped)

\* The batch of two records X1: {total: 2, successful: 1, failed: 0, skipped: 1}.
C8_Witness ==
  /\ Reported(1) /\ ~hist.faulted
  /\ hist.start = << >>
  /\ req[1].batch = <<"x1a", "x1b">>
  /\ req[1].resp.total = 2 /\ req[1].resp.successful = 1
  /\ req[1].resp.failed = 0 /\ req[1].resp.skipped = 1
  /\ Len(store) = 1 /\ store[1].name = Str(<<"a">>)

(* ------------------------- the batch size limit ----------------------- *)

\* The batch of n elements that repeats a pattern.
Repeat(pattern, n) == [k \in 1..n |-> pattern[((k - 1) % Len(pattern)) + 1]]

Patterns ==
  {<<"y1", "noDomain">>, <<"x1b", "numberId", "y1">>, <<"x1b", "null">>}

\* Batches at and just above the limit.
LargeBodies ==
  {BulkBody("array", Repeat(pattern, n)) :
     pattern \in Patterns, n \in {MAX_BULK_SIZE, MAX_BULK_SIZE + 1}}

LimitReceive ==
  \E body \in LargeBodies :
    /\ BulkReceive(1, body)
    /\ hist' = [NoHist EXCEPT !.start = store, !.size = Len(body.certificates)]
    /\ UNCHANGED <<served, programs>>

LimitCheck == BulkCheck(1, FALSE) /\ UNCHANGED <<hist, served, programs>>

LimitSave == BulkSave(1, FALSE) /\ UNCHANGED <<hist, served, programs>>

LimitRespond == BulkRespond(1) /\ UNCHANGED <<hist, served, programs>>

LimitFinish == Finish(1) /\ hist' = NoHist /\ UNCHANGED <<served, programs>>

NextLimit ==
  LimitReceive \/ LimitCheck \/ LimitSave \/ LimitRespond \/ LimitFinish

SpecLimit == Init /\ [][NextLimit]_vars

\* Every element of the batch is a JSON object (a record).
AllRecords(r) == \A p \in 1..Len(req[r].batch) : ItemAt(r, p).kind = "object"

\* C9: a batch of at most 1000 records (exactly 1000 included) is accepted, and
\* when it is answered every one of its records is in a bucket of the report; a
\* batch of 1001 is answered 400 before any record is examined, and the store is
\* as it was.
C9_SizeBoundary ==
  \A r \in Reqs :
    req[r].op = "bulk" =>
      /\ (hist.size \in 1..MAX_BULK_SIZE) => InLoop(r)
      /\ (hist.size > MAX_BULK_SIZE) =>
           /\ req[r].pc = "done" /\ req[r].resp.status = 400
           /\ req[r].i = 0 /\ req[r].batch = << >>
           /\ req[r].successful = << >> /\ req[r].failed = << >>
           /\ req[r].skipped = << >>
           /\ store = hist.start
      /\ InLoop(r) => Len(req[r].batch) = hist.size
      /\ (Answered(r) /\ AllRecords(r)) =>
           /\ Reported(r)
           /\ req[r].i = hist.size
           /\ req[r].resp.total = hist.size
           /\ Len(req[r].successful) + Len(req[r].failed) + Len(req[r].skipped)
                = hist.size

\* A batch of 1001 was refused while the store held documents.
C9_RejectedWitness ==
  /\ req[1].op = "bulk" /\ req[1].pc = "done" /\ req[1].batch = << >>
  /\ hist.size = MAX_BULK_SIZE + 1
  /\ req[1].resp.message = "Bulk insert limited"
  /\ Len(store) = 2

C9_Witness ==
  /\ Reported(1)
  /\ hist.size = MAX_BULK_SIZE
  /\ req[1].resp.total = MAX_BULK_SIZE
  /\ req[1].resp.successful + req[1].resp.failed + req[1].resp.skipped = MAX_BULK_SIZE
  /\ req[1].resp.successful = 2
  /\ AllRecords(1)


(* --------------------------- concurrent runs -------------------------- *)

\* The requests of the concurrent runs.
ConcurrentBodies == {<<"x1a">>, <<"y1", "x1b">>}
SingleBodies == {"empty", "x1b", "y1", "noDomain", "badEmail"}
PathKeys == {<<" ", "x", "1">>, <<"Y", "1">>, <<" ">>}
Files ==
  {File("none", << >>), File("unreadable", << >>)}
    \cup {File("sheet", rows) : rows \in Sheets}

Taken == served < MaxServed /\ served' = served + 1 /\ UNCHANGED <<hist, programs>>
Step == UNCHANGED <<served, hist, programs>>

ConcBulkReceive == \E r \in Reqs, body \in ConcurrentBodies :
  BulkReceive(r, BulkBody("array", body)) /\ Taken
ConcBulkCheck == \E r \in Reqs, fault \in BOOLEAN : BulkCheck(r, fault) /\ Step
ConcBulkSave == \E r \in Reqs, fault \in BOOLEAN : BulkSave(r, fault) /\ Step
ConcBulkRespond == \E r \in Reqs : BulkRespond(r) /\ Step
ConcSingleReceive == \E r \in Reqs, body \in SingleBodies, fault \in BOOLEAN :
  SingleReceive(r, body, fault) /\ Taken
ConcSingleSave == \E r \in Reqs, fault \in BOOLEAN : SingleSave(r, fault) /\ Step
ConcUpdateReceive ==
  \E r \in Reqs, key \in PathKeys, body \in DOMAIN UpdateBodies, fault \in BOOLEAN :
    UpdateReceive(r, key, body, fault) /\ Taken
ConcUpdateSave == \E r \in Reqs, fault \in BOOLEAN : UpdateSave(r, fault) /\ Step
ConcDelete == \E r \in Reqs, key \in PathKeys, fault \in BOOLEAN :
  DeleteByKey(r, key, fault) /\ Taken
ConcLookup == \E r \in Reqs, key \in PathKeys, fault \in BOOLEAN :
  Lookup(r, key, fault) /\ Taken
ConcUploadReceive == \E r \in Reqs, file \in Files, rejects \in BOOLEAN :
  UploadReceive(r, file, rejects) /\ Taken
ConcUploadWrite == \E r \in Reqs, fault \in BOOLEAN : UploadWrite(r, fault) /\ Step
ConcUploadRespond == \E r \in Reqs : UploadRespond(r) /\ Step
ConcFinish == \E r \in Reqs : Finish(r) /\ Step

Next ==
  \/ ConcBulkReceive \/ ConcBulkCheck \/ ConcBulkSave \/ ConcBulkRespond
  \/ ConcSingleReceive \/ ConcSingleSave
  \/ ConcUpdateReceive \/ ConcUpdateSave
  \/ ConcDelete \/ ConcLookup
  \/ ConcUploadReceive \/ ConcUploadWrite \/ ConcUploadRespond
  \/ ConcFinish

Spec == Init /\ [][Next]_vars

(* C10: internId is unique in the store in every reachable state: whatever the
   interleaving of single inserts, JSON bulk imports, spreadsheet uploads,
   updates and deletes of concurrent requests, no two stored certificates have
   the same trimmed, upper-cased internId (and every stored internId is in that
   form), although the insert paths look the key up and write in two steps. *)
C10_UniqueInternId ==
  /\ \A i, j \in 1..Len(store) :
       i # j => NormalKey(store[i].internId.s) # NormalKey(store[j].internId.s)
  /\ \A i \in 1..Len(store) : store[i].internId.s = NormalKey(store[i].internId.s)

\* Two requests raced for one key: a bulk import found the key free, a
\* concurrent request stored it, and the import's save was turned down by the
\* unique index, so the key is stored once.
C10_Witness ==
  \E r \in Reqs :
    /\ req[r].op = "bulk"
    /\ \E k \in 1..Len(req[r].failed) :
         /\ req[r].failed[k].errors = <<"E11000 duplicate key error">>
         /\ Cardinality(Matching(store, NormalKey(req[r].failed[k].internId.s))) = 1
    /\ \E r2 \in Reqs \ {r} : req[r2].op \in {"single", "upload", "bulk"}

(* C11: a bulk import that loses the race for a new internId (the key was free
   at its duplicate check and stored by another request before its save) has
   the record in `failed` with the store's duplicate-key message, once, at the
   record's index; the key is not stored twice; the loop goes on with the next
   record, and a batch of records ends with the report (201, 207 or 400). *)
C11_LostRaceIsFailed ==
  \A r \in Reqs :
    InLoop(r) =>
      /\ (req[r].pc = "done" /\ \A p \in 1..Len(req[r].batch) : ~ReadThrows(ItemAt(r, p)))
           => Reported(r) /\ req[r].i = Len(req[r].batch)
      /\ \A k \in 1..Len(req[r].failed) :
        req[r].failed[k].errors = <<DuplicateKeyError>> =>
          LET q == req[r]
              e == q.failed[k]
          IN /\ e.index \in 1..q.i
             /\ e.internId = RawId(ItemAt(r, e.index))
             /\ \A j \in 1..Len(q.failed) : q.failed[j].index = e.index => j = k
             /\ e.index \notin Indices(q.successful) \cup Indices(q.skipped)
             /\ Cardinality(Matching(store, KeyAt(r, e.index))) <= 1
             /\ Reported(r) =>
                  /\ q.resp.total = Len(q.batch)
                  /\ q.resp.failed = Len(q.failed)

\* The first record of a batch of two lost the race, the second was inserted,
\* and the batch was answered 207.
C11_Witness ==
  \E r \in Reqs :
    /\ Reported(r) /\ Len(req[r].batch) = 2
    /\ Len(req[r].failed) = 1 /\ req[r].failed[1].index = 1
    /\ req[r].failed[1].errors = <<DuplicateKeyError>>
    /\ Indices(req[r].successful) = {2}
    /\ req[r].resp.status = 207

\* The single insert of slot r has been answered, for a submitted record.
SingleAnswered(r) ==
  req[r].op = "single" /\ req[r].pc = "done" /\ req[r].batch # <<"empty">>

(* C12: on the single-insert path a duplicate key is a conflict, never a server
   error: under any interleaving, a valid submission for which the store
   answered every call either creates its record (201) or, the key being
   stored already, is answered 409 'Certificate with this Intern ID already
   exists'. *)
C12_DuplicateIsConflict ==
  \A r \in Reqs :
    (/\ SingleAnswered(r)
     /\ ValidRecord(Catalogue[req[r].batch[1]])
     /\ req[r].resp.error # "store unavailable")
      => \/ req[r].resp.status = 201
         \/ /\ req[r].resp.status = 409
            /\ req[r].resp.message = "Certificate with this Intern ID already exists"

\* Slot r takes in and answers a lookup in this step.
LookupStep(r) == req[r].pc = "idle" /\ req'[r].op = "lookup" /\ req'[r].pc = "done"

(* C13: a revoked certificate is never reported valid: a lookup answers
   valid:true only for a key whose stored record exists and is not revoked at
   the time of the lookup, and while the stored record of a key is revoked a
   lookup of it answers valid:false - 403 with the revoked message when the
   store answers - although the record is stored. *)
C13_RevokedNeverValid ==
  [][\A r \in Reqs :
       LookupStep(r) =>
         LET key == NormalKey(req'[r].key)
             answer == req'[r].resp
         IN /\ answer.valid =>
                 Exists(store, key) /\ findOne(store, key).status # "revoked"
            /\ (Exists(store, key) /\ findOne(store, key).status = "revoked") =>
                 /\ ~answer.valid
                 /\ answer.status \in {403, 500}
                 /\ answer.status = 403 => answer.message = RevokedMessage]_vars

\* A certificate was stored, revoked by an update, and then looked up: the
\* lookup was answered 403 and the record is still stored, revoked.
C13_Witness ==
  \E r \in Reqs :
    /\ req[r].op = "lookup" /\ req[r].pc = "done"
    /\ req[r].resp.status = 403 /\ ~req[r].resp.valid
    /\ Exists(store, NormalKey(req[r].key))
    /\ findOne(store, NormalKey(req[r].key)).status = "revoked"

\* Texts of internIds in several spellings, and the one key a spelling stands
\* for: its letters in upper case, without the surrounding blanks.
KeyForms ==
  {<<"x", "1">>, <<"X", "1">>, <<" ", "x", "1">>, <<"X", "1", " ">>,
   <<"y", "1">>, <<"Y", "1">>, <<" ", "Y", "1", " ">>}
SameKey(a, b) ==
  LET letters(x) == SelectSeq(x, LAMBDA c : c # " ")
      fold(x) == [i \in 1..Len(letters(x)) |->
                    IF letters(x)[i] \in {"x", "X"} THEN "X"
                    ELSE IF letters(x)[i] \in {"y", "Y"} THEN "Y" ELSE letters(x)[i]]
  IN fold(a) = fold(b)

\* Each spelling with the plain upper-case spelling of its key.
Respellings ==
  {pair \in KeyForms \X {<<"X", "1">>, <<"Y", "1">>} :
     pair[1] # pair[2] /\ SameKey(pair[1], pair[2])}

\* The handlers answer two spellings of one key alike, on the store as it is.
SpellingsAgree ==
  \A pair \in Respellings :
    /\ LookupAnswer(pair[1], store, FALSE) = LookupAnswer(pair[2], store, FALSE)
    /\ \A body \in {"revoke", "badDate"} :
         UpdateFound(pair[1], body, store, FALSE)
           = [UpdateFound(pair[2], body, store, FALSE) EXCEPT !.key = pair[1]]
\* The records " x1" and "X1" meet the same duplicate check, single and bulk.
DuplicateChecksAgree ==
  /\ SingleChecked("x1a", store, FALSE).resp.status
       = SingleChecked("x1b", store, FALSE).resp.status
  /\ BulkChecked([Idle EXCEPT !.op = "bulk", !.pc = "check", !.batch = <<"x1a">>],
                 store, FALSE).skipped
       = BulkChecked([Idle EXCEPT !.op = "bulk", !.pc = "check", !.batch = <<"x1b">>],
                     store, FALSE).skipped
\* No two stored records have internIds that are spellings of one key.
OneRecordPerKey ==
  \A i, j \in 1..Len(store) :
    i # j => ~SameKey(store[i].internId.s, store[j].internId.s)
\* A delete removes the record of the key its text spells, or answers 404 when
\* there is none.
DeleteBySpelling ==
  \A r \in Reqs :
    (req[r].pc = "idle" /\ req'[r].op = "delete" /\ req'[r].resp.status \in {200, 404}) =>
      LET hits == {k \in 1..Len(store) : SameKey(store[k].internId.s, req'[r].key)}
      IN IF req'[r].resp.status = 404 THEN hits = {} /\ store' = store
         ELSE \E k \in hits :
                store' = SubSeq(store, 1, k - 1) \o SubSeq(store, k + 1, Len(store))

(* C14: internId is matched case-insensitively on every path: two spellings of
   one key (lower or upper case, with or without surrounding blanks) get the
   same answer from lookup and update, delete the same record, meet the same
   duplicate check on single insert and bulk import, and never lead to two
   stored records. *)
C14_CaseInsensitive ==
  /\ [](SpellingsAgree /\ DuplicateChecksAgree /\ OneRecordPerKey)
  /\ [][DeleteBySpelling]_vars

\* The record stored from " x1" (name a) made the single insert of "X1" a
\* conflict.
C14_Witness ==
  \E r \in Reqs :
    /\ req[r].op = "single" /\ req[r].pc = "done" /\ req[r].batch = <<"x1b">>
    /\ req[r].resp.status = 409
    /\ Exists(store, <<"X", "1">>)
    /\ findOne(store, <<"X", "1">>).name = Str(<<"a">>)

\* The DD-MM-YYYY text of the calendar day a date text names: a DD-MM-YYYY text
\* is that text, a YYYY-MM-DD text has its three parts turned around.
SameDayText(x) ==
  IF IsIsoForm(trim(x))
  THEN SubSeq(trim(x), 9, 10) \o <<"-">> \o SubSeq(trim(x), 6, 7) \o <<"-">>
         \o SubSeq(trim(x), 1, 4)
  ELSE trim(x)

(* C15: the two textual date forms are equivalent: a date submitted as
   DD-MM-YYYY or as YYYY-MM-DD is stored as the DD-MM-YYYY text of that same
   calendar day, whatever the server's time zone. Stated on the records a bulk
   import has inserted: each holds, for both dates, the DD-MM-YYYY text of the
   day its element named. *)
C15_DualFormat ==
  \A r \in Reqs :
    InLoop(r) =>
      \A k \in 1..Len(req[r].successful) :
        LET p == req[r].successful[k].index
            item == ItemAt(r, p)
            doc == findOne(store, KeyAt(r, p))
        IN (IsString(item.f["startingDate"]) /\ IsString(item.f["completionDate"])) =>
             /\ doc.startingDate = Str(SameDayText(item.f["startingDate"].s))
             /\ doc.completionDate = Str(SameDayText(item.f["completionDate"].s))

(* ------------- the single insert, one request at a time --------------- *)

\* The bodies one client posts to POST /api/verify, one after the other: records
\* with canonical and with display-name keys, with several defects at once, with
\* values of other types than the data model's.
ValidationItems ==
  {"z1", "serialDate", "displayNames", "nameOfTheIntern", "startDate", "bothNames",
   "nothing", "badDates", "blankId", "numberIdNoDomain", "numberId", "noDomain",
   "badDuration"}

ValReceive == \E body \in ValidationItems, fault \in BOOLEAN :
  SingleReceive(1, body, fault) /\ Step

ValSave == \E fault \in BOOLEAN : SingleSave(1, fault) /\ Step

ValFinish == Finish(1) /\ Step

NextValidate == ValReceive \/ ValSave \/ ValFinish

SpecValidate == Init /\ [][NextValidate]_vars

\* The value is a text of the form DD-MM-YYYY.
IsDayText(v) == IsString(v) /\ IsDdMmYyyy(v.s)

(* C16: every certificate record created through an ingestion path (single
   insert, JSON bulk import, spreadsheet upload) holds startingDate and
   completionDate as DD-MM-YYYY texts: no step adds a document to the collection
   whose dates are a native date, a number, null or a text of another form. *)
C16_CanonicalDates ==
  [][\A i \in 1..Len(store') :
       (\A k \in 1..Len(store) : store[k].oid # store'[i].oid) =>
         /\ IsDayText(store'[i].startingDate)
         /\ IsDayText(store'[i].completionDate)]_vars

(* C17: a date given as a number is a spreadsheet date serial on every ingestion
   path: the record a single insert created from a record whose startingDate is
   the number n holds the calendar day of the instant (n - 25569) * 86400 * 1000
   milliseconds after the Unix epoch, as its DD-MM-YYYY text. *)
C17_SerialEverywhere ==
  \A r \in Reqs :
    LET item == Catalogue[req[r].batch[1]]
    IN (/\ SingleAnswered(r)
        /\ req[r].resp.status = 201
        /\ item.f["startingDate"].t = "number")
         => findOne(store, NormalKey(item.f["internId"].s)).startingDate
              = Str(FormatDay(SerialDate(item.f["startingDate"]).n))

\* The field is absent: not given, null or the empty text.
Absent(v) == v.t \in {"undefined", "null"} \/ (IsString(v) /\ v.s = << >>)

\* The field is not 'non-empty after trim'.
EmptyAfterTrim(v) == Absent(v) \/ (IsString(v) /\ trim(v.s) = << >>)

\* The defects the rules name for a canonical record, each rule on its own, in
\* the order of the rules.
Defect(cond, msg) == IF cond THEN <<msg>> ELSE << >>
DefectsOf(data) ==
  Defect(EmptyAfterTrim(data.internId), "Intern ID is required")
  \o Defect(EmptyAfterTrim(data.name), "Name is required")
  \o Defect(EmptyAfterTrim(data.domain), "Domain is required")
  \o Defect(data.duration.t \in {"undefined", "null"}, "Duration is required")
  \o Defect(Absent(data.startingDate), "Starting Date is required")
  \o Defect(Absent(data.completionDate), "Completion Date is required")
  \o Defect(~Absent(data.startingDate) /\ IsInvalidDate(parseDate(data.startingDate)),
            "Invalid Starting Date format")
  \o Defect(~Absent(data.completionDate)
              /\ IsInvalidDate(parseDate(data.completionDate)),
            "Invalid Completion Date format")

(* C18: validateCertificate checks every rule on its own and returns all defects
   at once, in the fixed order of the rules; a failing rule never hides another
   rule's defect. Seen at the single insert: a record with defects is answered
   400 'Validation failed' with exactly the list of its defects, and a record
   without any is not answered 'Validation failed'. *)
C18_AllDefects ==
  \A r \in Reqs :
    SingleAnswered(r) =>
      LET defects == DefectsOf(Extracted[req[r].batch[1]])
      IN IF defects # << >>
         THEN /\ req[r].resp.status = 400
              /\ req[r].resp.message = "Validation failed"
              /\ req[r].resp.errors = defects
         ELSE req[r].resp.message # "Validation failed"

(* C19: field extraction and validation never throw: whatever the types of a
   raw record's field values, a single insert of it is answered 400
   'Validation failed' or proceeds to the store; it is never answered 500
   because a TypeError was thrown on the record. (The email, which the handler
   trims after validation, is a text or absent here.) *)
C19_NeverThrows ==
  \A r \in Reqs :
    (/\ SingleAnswered(r)
     /\ Catalogue[req[r].batch[1]].kind = "object"
     /\ ~EmailThrows(Extracted[req[r].batch[1]]))
      => ~(req[r].resp.status = 500 /\ req[r].resp.error = "TypeError")

\* The records that give fields under display names, each with the record that
\* gives the same values under the canonical names.
CanonicalTwin ==
  [displayNames |-> "z1", nameOfTheIntern |-> "z1", startDate |-> "z1",
   bothNames |-> "z1"]

(* C20: field names are resolved canonical first, display name second: a record
   that gives a field under a display name ("Intern ID", "Name of the Intern",
   "Start Date", ...) has the outcome and the stored record of the record that
   gives the same value under the canonical name, and the canonical value wins
   when both are given. The canonical record being valid, the single insert of
   each such record, the store answering, is 201 with the canonical record's
   document stored, or 409 when the key is stored already. *)
C20_DisplayNames ==
  \A r \in Reqs :
    (/\ SingleAnswered(r)
     /\ req[r].batch[1] \in DOMAIN CanonicalTwin
     /\ req[r].resp.error # "store unavailable")
      => LET twin == CanonicalTwin[req[r].batch[1]]
             doc == findOne(store, NormalKey(Extracted[twin].internId.s))
         IN \/ /\ req[r].resp.status = 201
               /\ doc = [Built[tz][twin] EXCEPT !.oid = doc.oid]
            \/ /\ req[r].resp.status = 409
               /\ req[r].resp.message = "Certificate with this Intern ID already exists"

(* C21: a bulk import writes only for its successful records: with no other
   request served, at every point of the batch the collection is the collection
   the batch started from, unchanged, followed by exactly one document per
   entry of `successful`, in order and under that entry's internId; what ends
   in `failed` or `skipped` adds, changes and removes nothing, and the writes
   made for earlier records stay when later records fail. *)
C21_WritesOnlySuccessful ==
  InLoop(1) =>
    LET before == Len(hist.start)
        succ == req[1].successful
    IN /\ Len(store) = before + Len(succ)
       /\ SubSeq(store, 1, before) = hist.start
       /\ \A k \in 1..Len(succ) :
            /\ store[before + k].internId = succ[k].internId
            /\ store[before + k] =
                 [Built[tz][req[1].batch[succ[k].index]] EXCEPT
                    !.oid = store[before + k].oid]
            /\ Cardinality({j \in 1..Len(store) :
                              store[j].internId = succ[k].internId}) = 1

\* A reported batch of three: the first and the third record are stored, the
\* second one failed, and the collection grew by those two.
C21_Witness ==
  /\ Reported(1)
  /\ Len(req[1].batch) = 3
  /\ Indices(req[1].successful) = {1, 3}
  /\ Indices(req[1].failed) = {2}
  /\ Len(store) = Len(hist.start) + 2

\* The _ids of the collection's documents, and the document of an _id.
Oids(st) == {st[k].oid : k \in 1..Len(st)}
DocOf(st, oid) == st[CHOOSE k \in 1..Len(st) : st[k].oid = oid]

\* Slot r takes in an update / saves an update / serves a delete in this step.
UpdateArrives(r) == req[r].pc = "idle" /\ req'[r].op = "update"
UpdateSaves(r) == req[r].op = "update" /\ req[r].pc = "save" /\ req'[r].pc = "done"
DeleteStep(r) == req[r].pc = "idle" /\ req'[r].op = "delete"
InsertStep(r) == req[r] # req'[r] /\ req[r].op \in {"single", "bulk", "upload"}

(* C22: PUT /api/verify/:internId changes only allow-listed fields of the one
   record with that key: no step changes the internId of a stored record; the
   step that saves an update leaves every other record as it was, creates and
   removes none and changes allow-listed fields only; the arrival of an update
   writes nothing and, the store answering, answers 404 for a key that is not
   stored; records appear only in steps of the insert paths and disappear only
   in steps of DELETE by key. *)
C22_UpdateFrame ==
  [][/\ \A o \in Oids(store) \cap Oids(store') :
          DocOf(store', o).internId = DocOf(store, o).internId
     /\ \A r \in Reqs :
          /\ UpdateSaves(r) =>
               /\ Oids(store') = Oids(store)
               /\ \A o \in Oids(store) :
                    \A f \in DOMAIN DocOf(store, o) :
                      DocOf(store', o)[f] # DocOf(store, o)[f] =>
                        o = req[r].oid /\ f \in allowedUpdates
          /\ UpdateArrives(r) =>
               /\ store' = store
               /\ (/\ trim(req'[r].key) # << >>
                   /\ ~Exists(store, NormalKey(req'[r].key))
                   /\ req'[r].resp.status # 500)
                    => req'[r].pc = "done" /\ req'[r].resp.status = 404
     /\ Oids(store') \ Oids(store) # {} => \E r \in Reqs : InsertStep(r)
     /\ Oids(store) \ Oids(store') # {} => \E r \in Reqs : DeleteStep(r)]_vars

\* An update has been saved that changed the stored record: the record of key
\* X1 is revoked and still has its key, although the body carried another one.
C22_Witness ==
  \E r \in Reqs :
    /\ req[r].op = "update" /\ req[r].pc = "done"
    /\ req[r].batch = <<"revoke">>
    /\ req[r].resp.status = 200
    /\ NormalKey(req[r].key) = <<"X", "1">>
    /\ Exists(store, <<"X", "1">>)
    /\ findOne(store, <<"X", "1">>).status = "revoked"

(* C23: a malformed bulk envelope (empty body, `certificates` missing or not an
   array, empty array, more than 1000 entries) is rejected with 400 before any
   record is examined or any store call is made, and the response carries an
   example payload: a bulk request that never entered the record loop is
   answered 400 with `example`, has no bucket entry and leaves the store as it
   was. *)
C23_EnvelopeRejected ==
  \A r \in Reqs :
    (req[r].op = "bulk" /\ req[r].pc = "done" /\ req[r].batch = << >>) =>
      /\ req[r].resp.status = 400
      /\ req[r].resp.example
      /\ req[r].i = 0
      /\ req[r].successful = << >> /\ req[r].failed = << >> /\ req[r].skipped = << >>
      /\ store = hist.start

(* C24: the bulk report carries `details` exactly when at least one record
   failed or was skipped: a report has `details` iff its failed and skipped
   counts are not both zero, and it has none iff every position of the batch is
   in `successful` (the response is then the 201 with message and counts). *)
C24_DetailsWhenNeeded ==
  \A r \in Reqs :
    Reported(r) =>
      /\ req[r].resp.details <=> (req[r].resp.failed + req[r].resp.skipped > 0)
      /\ ~req[r].resp.details <=>
           Indices(req[r].successful) = 1..Len(req[r].batch)
      /\ ~req[r].resp.details =>
           /\ req[r].resp.status = 201
           /\ req[r].resp.successful = req[r].resp.total

\* A report with one record inserted and one skipped, none failed: it has the
\* details.
C24_Witness ==
  /\ Reported(1)
  /\ req[1].resp.details
  /\ req[1].resp.failed = 0 /\ req[1].resp.skipped = 1 /\ req[1].resp.successful = 1

(* ----------------------------- /api/programs -------------------------- *)

\* The bodies sent to the program routes, by name. (A text of the catalog is
\* written with one element per word group; its blanks at the ends, which trim
\* removes, would be elements of their own.)
ProgramBodies ==
  [titleOnly |-> [title |-> Str(<<"Test">>), summary |-> Undef, category |-> Undef,
                  level |-> Undef, duration |-> Undef],
   full |-> [title |-> Str(<<"Test Program">>), summary |-> Str(<<"A test summary">>),
             category |-> Str(<<"Development">>), level |-> Str(<<"Beginner">>),
             duration |-> Str(<<"1 month">>)],
   retitle |-> [title |-> Str(<<"Updated Test Program">>), summary |-> Undef,
                category |-> Undef, level |-> Undef,
                duration |-> Str(<<"2 months">>)]]

\* validateProgram (the bodies carry no rating): the list of defects, or a
\* TypeError thrown by .trim() on a truthy value that is not a string.
validateProgram(data) ==
  IF \E f \in DOMAIN data : TrimThrows(data[f])
  THEN [threw |-> TRUE, errors |-> << >>]
  ELSE [threw |-> FALSE,
        errors |->
          Keep(Blank(data.title), "Title is required")
          \o Keep(Blank(data.summary), "Summary is required")
          \o (IF Blank(data.category) THEN <<"Category is required">>
              ELSE Keep(data.category.s \notin
                          {<<"Business">>, <<"Development">>, <<"Cybersecurity">>,
                           <<"Data Science">>, <<"Business & Analytics">>,
                           <<"Cyber Security">>, <<"AI & Machine Learning">>,
                           <<"Data & Analytics">>},
                        "Category must be one of"))
          \o (IF Blank(data.level) THEN <<"Level is required">>
              ELSE Keep(data.level.s \notin
                          {<<"Beginner">>, <<"Intermediate">>, <<"Advanced">>,
                           <<"Beginner to Intermediate">>},
                        "Level must be one of"))
          \o Keep(Blank(data.duration), "Duration is required")]

\* router.post('/') of the program routes: no middleware stands before the
\* handler, so the Authorization header (token) is not looked at. The created
\* document is held in `found`, as the response's data.
ProgramCreate(r, body, token, fault) ==
  /\ req[r].pc = "idle"
  /\ LET q == [Idle EXCEPT !.op = "programCreate", !.batch = <<body>>,
                           !.token = token]
         data == ProgramBodies[body]
         v == validateProgram(data)
         doc == [title |-> Str(trim(data.title.s)),
                 summary |-> Str(trim(data.summary.s)),
                 category |-> Str(trim(data.category.s)),
                 level |-> Str(trim(data.level.s)),
                 duration |-> Str(trim(data.duration.s)),
                 status |-> "active",
                 oid |-> FreshOid(programs, req)]
     IN IF v.threw \/ (v.errors = << >> /\ fault)
        THEN /\ req' = [req EXCEPT ![r] =
                          Answer(q, 500, "An error occurred while adding the program")]
             /\ programs' = programs
        ELSE IF v.errors # << >>
        THEN /\ req' = [req EXCEPT ![r] =
                          [Answer(q, 400, "Validation failed") EXCEPT
                             !.resp.errors = v.errors]]
             /\ programs' = programs
        ELSE /\ Len(programs) < MaxStore
             /\ programs' = Append(programs, doc)
             /\ req' = [req EXCEPT ![r] =
                          [Answer(q, 201, "Program added successfully") EXCEPT
                             !.found = <<doc>>]]
  /\ UNCHANGED <<store, tz>>

\* PUT /api/programs/:id: the program router has no put route, so the request
\* falls through to the application's 404 handler.
ProgramUpdate(r, id, body, token) ==
  /\ req[r].pc = "idle"
  /\ req' = [req EXCEPT ![r] =
               Answer([Idle EXCEPT !.op = "programUpdate", !.oid = id,
                                   !.batch = <<body>>, !.token = token],
                      404, "Route not found")]
  /\ UNCHANGED <<store, tz, programs>>

\* router.delete('/:id'): findByIdAndDelete; an id that is no ObjectId (0 here)
\* is a CastError.
ProgramDelete(r, id, token, fault) ==
  /\ req[r].pc = "idle"
  /\ LET q == [Idle EXCEPT !.op = "programDelete", !.oid = id, !.token = token]
         at == {k \in 1..Len(programs) : programs[k].oid = id}
     IN IF id = 0
        THEN /\ req' = [req EXCEPT ![r] = Answer(q, 400, "Invalid program ID")]
             /\ programs' = programs
        ELSE IF fault
        THEN /\ req' = [req EXCEPT ![r] =
                          Answer(q, 500, "An error occurred while deleting the program")]
             /\ programs' = programs
        ELSE IF at = {}
        THEN /\ req' = [req EXCEPT ![r] = Answer(q, 404, "Program not found")]
             /\ programs' = programs
        ELSE /\ programs' = SelectSeq(programs, LAMBDA d : d.oid # id)
             /\ req' = [req EXCEPT ![r] =
                          [Answer(q, 200, "Program deleted successfully") EXCEPT
                             !.found = <<programs[CHOOSE k \in at : TRUE]>>]]
  /\ UNCHANGED <<store, tz>>

\* The ids a client puts into the path: those of documents, and 0.
ProgramIds == 0..MaxStore

\* One client works on the program catalog, one request at a time, with and
\* without the token it got from the login.
NextPrograms ==
  \/ \E body \in DOMAIN ProgramBodies, token \in BOOLEAN, fault \in BOOLEAN :
       ProgramCreate(1, body, token, fault) /\ UNCHANGED <<served, hist>>
  \/ \E id \in ProgramIds, body \in DOMAIN ProgramBodies, token \in BOOLEAN :
       ProgramUpdate(1, id, body, token) /\ UNCHANGED <<served, hist>>
  \/ \E id \in ProgramIds, token \in BOOLEAN, fault \in BOOLEAN :
       ProgramDelete(1, id, token, fault) /\ UNCHANGED <<served, hist>>
  \/ Finish(1) /\ Step

SpecPrograms == Init /\ [][NextPrograms]_vars

(* C25: a write to the program catalog without a bearer token is refused: the
   step in which POST /api/programs is served answers 401 and leaves the
   programs as they were when the request has no token, and does not answer 401
   when it has one. *)
C25_WriteNeedsToken ==
  [][\A r \in Reqs :
       (req[r].pc = "idle" /\ req'[r].op = "programCreate") =>
         IF req'[r].token THEN req'[r].resp.status # 401
         ELSE req'[r].resp.status = 401 /\ programs' = programs]_vars

(* C26: the program catalog supports create, update, delete by id: with the
   store answering, PUT /api/programs/:id of a stored program with a new title
   answers success:true with data.title the new title, and the stored program
   carries that title; DELETE /api/programs/:id of a stored program answers
   success:true and removes it. *)
C26_CreateUpdateDelete ==
  [][\A r \in Reqs :
       /\ (/\ req[r].pc = "idle" /\ req'[r].op = "programUpdate"
           /\ req'[r].oid \in Oids(programs))
            => LET title == ProgramBodies[req'[r].batch[1]].title
               IN /\ req'[r].resp.success
                  /\ req'[r].found # << >> /\ req'[r].found[1].title = title
                  /\ req'[r].oid \in Oids(programs')
                  /\ DocOf(programs', req'[r].oid).title = title
       /\ (/\ req[r].pc = "idle" /\ req'[r].op = "programDelete"
           /\ req'[r].oid \in Oids(programs)
           /\ req'[r].resp.status # 500)
            => /\ req'[r].resp.success
               /\ req'[r].oid \notin Oids(programs')]_vars

\* Slot r takes in a request of an insert path in this step.
InsertArrives(r) ==
  req[r].pc = "idle" /\ req'[r].op \in {"single", "bulk", "upload"}

(* C27: no insert path modifies a stored certificate: in every step of a single
   insert, of a JSON bulk import or of a spreadsheet upload (its arrival, its
   duplicate check, its save or write, its response) every stored document is
   still stored and has the value of every field it had, the status included,
   whatever the incoming record of the same internId carries. *)
C27_InsertsLeaveStored ==
  [][\A r \in Reqs :
       (InsertArrives(r) \/ InsertStep(r)) =>
         \A o \in Oids(store) :
           o \in Oids(store') /\ DocOf(store', o) = DocOf(store, o)]_vars

\* A single insert of key X1 with name "b" was answered 409 and the stored
\* record of X1, revoked by an update, is revoked and has the name it was
\* inserted with by another path.
C27_Witness ==
  \E r \in Reqs :
    /\ req[r].op = "single" /\ req[r].pc = "done"
    /\ req[r].batch = <<"x1b">>
    /\ req[r].resp.status = 409
    /\ Exists(store, <<"X", "1">>)
    /\ findOne(store, <<"X", "1">>).status = "revoked"
    /\ findOne(store, <<"X", "1">>).name # Str(<<"b">>)

(* C28: a rejected update leaves the stored record unchanged. In the step that
   ends PUT /api/verify/:internId after the record was found: an answer other
   than 200 leaves the store as it was; a body with a startingDate that does
   not parse is answered 400 and its name is not applied; a body with a null
   completionDate or a name of blanks is answered 500 and nothing of it (the
   name, the status) is stored; a body with the status "x" leaves the status
   of every stored record as it was, while its name is applied when the save
   succeeds. *)
C28_RejectedUpdateKeepsRecord ==
  [][\A r \in Reqs :
       UpdateSaves(r) =>
         LET body == req[r].batch[1]
             status == req'[r].resp.status
         IN /\ status # 200 => store' = store
            /\ body = "badDate" => status = 400 /\ store' = store
            /\ body \in {"nullDate", "blankName"} => status = 500 /\ store' = store
            /\ body = "rename" =>
                 /\ \A o \in Oids(store) :
                      /\ o \in Oids(store')
                      /\ DocOf(store', o).status = DocOf(store, o).status
                 /\ status = 200 =>
                      \E o \in Oids(store') : DocOf(store', o).name = Str(<<"c">>)]_vars

\* An update of X1 whose startingDate does not parse was answered 400 and the
\* stored X1 has the name it had, not the "c" of the body.
C28_Witness ==
  \E r \in Reqs :
    /\ req[r].op = "update" /\ req[r].pc = "done"
    /\ req[r].batch = <<"badDate">>
    /\ req[r].resp.status = 400
    /\ req[r].resp.message = "Invalid Starting Date format"
    /\ Exists(store, <<"X", "1">>)
    /\ findOne(store, <<"X", "1">>).name # Str(<<"c">>)

\* The certificate has a truthy internId, name and domain.
HasRequired(cert) == Truthy(cert.internId) /\ Truthy(cert.name) /\ Truthy(cert.domain)

\* Slot r takes in an upload in this step.
UploadArrives(r) == req[r].pc = "idle" /\ req'[r].op = "upload"

(* C29: the spreadsheet upload validates before it writes, all or nothing. A
   file with a parsed row that lacks internId, name or domain is answered 400;
   the step that takes an upload in writes nothing, and when it answers 400 for
   invalid data the request is over with no write to come; an upload goes on to
   its writes only with certificates that all have the three fields; the store
   changes in a step of an upload only in its write phase, by one document that
   is one of its validated certificates. *)
C29_ValidateThenWrite ==
  [][/\ \A file \in Files, rejects \in BOOLEAN :
          (/\ file.kind = "sheet"
           /\ \E k \in 1..Len(Parsed[file.rows]) : ~HasRequired(Parsed[file.rows][k]))
            => /\ UploadParsed(file, rejects).resp.status = 400
               /\ UploadParsed(file, rejects).pc = "done"
     /\ \A r \in Reqs :
          /\ UploadArrives(r) =>
               /\ store' = store
               /\ req'[r].pc = "write" => \A c \in req'[r].ops : HasRequired(c)
               /\ req'[r].resp.message = "Invalid data in Excel file" =>
                    /\ req'[r].resp.status = 400
                    /\ req'[r].pc = "done" /\ req'[r].ops = {}
          /\ (req[r].op = "upload" /\ req'[r] # req[r]) =>
               /\ req'[r].op = "upload" => req'[r].ops \subseteq req[r].ops
               /\ store' # store =>
                    /\ req[r].pc = "write"
                    /\ \A c \in req[r].ops : HasRequired(c)
                    /\ Len(store') = Len(store) + 1
                    /\ SubSeq(store', 1, Len(store)) = store
                    /\ \E c \in req[r].ops :
                         [store'[Len(store')] EXCEPT !.oid = 0] = c]_vars

\* An upload whose first row (Y1) is complete and whose second row has no
\* domain was answered 400, and Y1 is not stored.
C29_Witness ==
  \E r \in Reqs :
    /\ req[r].op = "upload" /\ req[r].pc = "done"
    /\ req[r].resp.status = 400
    /\ req[r].resp.message = "Invalid data in Excel file"
    /\ ~Exists(store, <<"Y", "1">>)

(* C30: the upload removes its temporary file on every path that ends the
   request: once an upload is answered (200, 400 or 500) the file multer wrote
   for it is no longer there. *)
C30_TempFileRemoved ==
  \A r \in Reqs :
    (req[r].op = "upload" /\ req[r].pc = "done") => ~req[r].tmp

=========================================================================
